---- MODULE Spec2Model ----
(***************************************************************************)
(* Session and token-rotation core of the auth-api service:                *)
(* loginWithPassword and refreshSession (services/authService.js), the     *)
(* googleCallback controller, and the client logout of the auth store.     *)
(* Every await on the session store is a separate step of a worker, so     *)
(* two requests interleave exactly at the store operations.                *)
(***************************************************************************)
EXTENDS Integers, Sequences, FiniteSets, TLC

VARIABLES sessions, now, nextJti, pc, frame, result, issued, used, lineage,
          isAuthenticated, env, users,
          surrealPc, signins, signedIn, timers, accepts, globalWebSocket,
          processEnv, request, response,
          preferences, isLoaded, localStorage,
          isLoading, error, lastAuthCheck, isCheckingAuth, authRequired,
          clock, cpc, cframe, cresult,
          isExporting, exports, toast

\* the connection of the service to its store (initSurreal)
boot == <<surrealPc, signins, signedIn, timers, accepts, globalWebSocket>>
\* the auth service and the client's auth store
service == <<sessions, now, nextJti, pc, frame, result, issued, used, lineage,
             isAuthenticated, env, users, boot>>
\* the rest of the client's auth store and the calls it has in flight
authStore == <<isLoading, error, lastAuthCheck, isCheckingAuth, authRequired,
               clock, cpc, cframe, cresult>>
\* the content toolbar
toolbar == <<isExporting, exports, toast>>
\* the frontend: the Next.js middleware, the content preferences hook, the
\* auth store and the toolbar
frontend == <<processEnv, request, response,
              preferences, isLoaded, localStorage, authStore, toolbar>>

vars == <<service, frontend>>

\* ------------------------------------------------------------------ bounds
MaxJti == 3                  \* token identifiers generated in one behaviour
MaxTime == 2                 \* last clock tick
MaxClock == 3                \* last tick of the browser's clock
\* the two requests that are served at the same time
Workers == {1, 2}

\* --------------------------------------------------------------- constants
RefreshTTL == 1              \* refresh token lifetime in ticks (30 days)
AccessTTL == 1               \* access token lifetime in ticks (15 minutes)

\* ------------------------------------------------------------------- users
NoHash == <<>>
bcryptHash(password) == <<"bcrypt", password>>
bcryptCompare(password, hash) == bcryptHash(password) = hash

NoUser == [id |-> 0, email |-> "", password_hash |-> NoHash]
Users == { [id |-> 1, email |-> "a@x.com", password_hash |-> bcryptHash("correct")],
           [id |-> 2, email |-> "g@x.com", password_hash |-> NoHash] }

Emails == {"a@x.com", "g@x.com", "nobody@x.com"}
Passwords == {"correct", "wrong"}
Metas == { [ip |-> "10.0.0.1", user_agent |-> "ua1"] }
NoMeta == [ip |-> "", user_agent |-> ""]

findUserByEmail(email) ==
    IF \E u \in users : u.email = email
    THEN CHOOSE u \in users : u.email = email
    ELSE NoUser

findUserById(id) ==
    IF \E u \in users : u.id = id
    THEN CHOOSE u \in users : u.id = id
    ELSE NoUser

\* ----------------------------------------------------------- configuration
\* the two signing secrets of the deployment: set to different values, or
\* both to the same value
TwoSecrets == [ACCESS_SECRET |-> "access_secret",
               REFRESH_SECRET |-> "refresh_secret",
               NODE_ENV |-> "production"]
OneSecret == [ACCESS_SECRET |-> "access_secret",
              REFRESH_SECRET |-> "access_secret",
              NODE_ENV |-> "production"]
Envs == {TwoSecrets, OneSecret}

\* values of NODE_ENV: the three usual ones, a differently cased one, unset
NodeEnvs == {"production", "development", "test", "Production", ""}

\* ----------------------------------------------------------------- cookies
\* a JavaScript number above 2^31 as <<millions, rest>>: the products of
\* authService.js line 10 are exact in a double
Num(n) == <<n \div 1000000, n % 1000000>>
Times(x, k) ==
    LET low == x[2] * k IN <<x[1] * k + low \div 1000000, low % 1000000>>

\* variant: the two lifetimes are swapped
createCookieOptions_Swapped(isRefresh) ==
    [httpOnly |-> TRUE, sameSite |-> "lax",
     secure |-> (env.NODE_ENV = "production"),
     maxAge |-> IF isRefresh
                THEN Times(Times(Num(1000), 60), 15)
                ELSE Times(Times(Times(Times(Num(1000), 60), 60), 24), 30),
     path |-> "/"]

\* variant: NODE_ENV is compared without regard to case
createCookieOptions_AnyCase(isRefresh) ==
    [httpOnly |-> TRUE, sameSite |-> "lax",
     secure |-> (env.NODE_ENV \in {"production", "Production"}),
     maxAge |-> IF isRefresh
                THEN Times(Times(Times(Times(Num(1000), 60), 60), 24), 30)
                ELSE Times(Times(Num(1000), 60), 15),
     path |-> "/"]

\* authService.js 9-18
createCookieOptions(isRefresh) ==
    [httpOnly |-> TRUE, sameSite |-> "lax",
     secure |-> (env.NODE_ENV = "production"),
     maxAge |-> IF isRefresh
                THEN Times(Times(Times(Times(Num(1000), 60), 60), 24), 30)
                ELSE Times(Times(Num(1000), 60), 15),
     path |-> "/"]

\* ------------------------------------------------------------------ tokens
NoToken == [typ |-> "none", sub |-> 0, jti |-> 0, email |-> "", iat |-> 0,
            exp |-> 0, key |-> "none"]

signAccessToken(sub, email, t) ==
    [typ |-> "access", sub |-> sub, jti |-> 0, email |-> email, iat |-> t,
     exp |-> t + AccessTTL, key |-> env.ACCESS_SECRET]

signRefreshToken(sub, jti, t) ==
    [typ |-> "refresh", sub |-> sub, jti |-> jti, email |-> "", iat |-> t,
     exp |-> t + RefreshTTL, key |-> env.REFRESH_SECRET]

\* TRUE when verification returns the payload, FALSE when it throws
verifyRefreshToken(token, t) ==
    /\ token.key = env.REFRESH_SECRET
    /\ t < token.exp

hashToken(token) == <<"sha256", token>>

\* ----------------------------------------------------------- session store
NoSession == [id |-> 0, user_id |-> 0, jwt_id |-> 0, ip |-> "",
              user_agent |-> "", refresh_hash |-> <<>>, revoked_at |-> 0]

\* JavaScript truthiness of a timestamp column: null (0 here) is falsy
Truthy(x) == x # 0

findSessionByJti(store, jti) ==
    IF \E i \in 1..Len(store) : store[i].jwt_id = jti
    THEN store[CHOOSE i \in 1..Len(store) : store[i].jwt_id = jti]
    ELSE NoSession

\* variant: the store has no uniqueness constraint on jwt_id
createSessionConflict_Never(store, jti) == FALSE

createSessionConflict(store, jti) ==
    \E i \in 1..Len(store) : store[i].jwt_id = jti

createSession(store, row) ==
    Append(store, [id |-> Len(store) + 1, user_id |-> row.user_id,
                   jwt_id |-> row.jwt_id, ip |-> row.ip,
                   user_agent |-> row.user_agent,
                   refresh_hash |-> row.refresh_hash, revoked_at |-> 0])

\* variant: the timestamp is written again on every call
revokeSession_Overwrites(store, id, t) ==
    [i \in 1..Len(store) |->
        IF store[i].id = id
        THEN [store[i] EXCEPT !.revoked_at = t]
        ELSE store[i]]

revokeSession(store, id, t) ==
    [i \in 1..Len(store) |->
        IF store[i].id = id /\ ~Truthy(store[i].revoked_at)
        THEN [store[i] EXCEPT !.revoked_at = t]
        ELSE store[i]]

\* ------------------------------------------------------- Next.js middleware
\* the text of a base URL is its origin followed by slash times "/";
\* an unset variable and the empty string are both falsy
Url(origin, slash) == [origin |-> origin, slash |-> slash]
Unset == Url("", 0)
Falsy(u) == u = Unset

InternalApiUrls ==
    {Unset, Url("http://backend:15055", 0), Url("http://backend:15055", 1),
     Url("http://backend:15055", 2), Url("http://auth-api:4000", 0)}
InternalAuthApiUrls ==
    {Unset, Url("http://auth-api:4000", 0), Url("http://auth-api:4000", 1)}
ProcessEnvs ==
    [INTERNAL_API_URL : InternalApiUrls,
     INTERNAL_AUTH_API_URL : InternalAuthApiUrls]
\* the frontend environment of the documented docker-compose.yml
ComposeEnv ==
    [INTERNAL_API_URL |-> Unset,
     INTERNAL_AUTH_API_URL |-> Url("http://auth-api:4000", 0)]

\* a pathname is its segments and whether it ends with "/"
Root == [segs |-> <<>>, slash |-> TRUE]
Path(segs, slash) == [segs |-> segs, slash |-> slash]
Pathnames ==
    {Root,
     Path(<<"api", "auth", "google">>, FALSE),
     Path(<<"api", "auth", "google", "callback">>, FALSE),
     Path(<<"api", "auth", "refresh">>, FALSE),
     Path(<<"api", "notebooks">>, FALSE),
     Path(<<"api">>, TRUE),
     Path(<<"api">>, FALSE),
     Path(<<"notebooks">>, FALSE)}
Searches == {"", "?code=abc"}
\* origin of request.url
FrontendOrigin == "http://localhost:13000"

NoRequest == [pathname |-> Root, search |-> "none"]
NoUrl == [origin |-> "", slash |-> 0, pathname |-> Root, search |-> ""]
NoResponse == [kind |-> "none", url |-> NoUrl]

\* config.matcher: '/' and '/api/:path*'
matcher(pathname) ==
    \/ pathname = Root
    \/ Len(pathname.segs) >= 1 /\ pathname.segs[1] = "api"

\* pathname.startsWith('/api/')
startsWithApi(pathname) ==
    /\ Len(pathname.segs) >= 1
    /\ pathname.segs[1] = "api"
    /\ Len(pathname.segs) >= 2 \/ pathname.slash

\* variant: every trailing slash is removed
stripTrailingSlash_All(u) == [u EXCEPT !.slash = 0]

\* internalApiUrl.replace(/\/$/, ''): the last character, when it is "/"
stripTrailingSlash(u) == [u EXCEPT !.slash = IF @ > 0 THEN @ - 1 ELSE 0]

\* process.env.INTERNAL_API_URL || 'http://localhost:15055'
internalApiUrl(pathname) ==
    IF Falsy(processEnv.INTERNAL_API_URL)
    THEN Url("http://localhost:15055", 0)
    ELSE processEnv.INTERNAL_API_URL

middlewareResponse(pathname, search) ==
    IF pathname = Root
    THEN [kind |-> "redirect",
          url |-> [origin |-> FrontendOrigin, slash |-> 0,
                   pathname |-> Path(<<"notebooks">>, FALSE),
                   search |-> ""]]
    ELSE IF startsWithApi(pathname)
    THEN [kind |-> "rewrite",
          url |-> [origin |->
                       stripTrailingSlash(internalApiUrl(pathname)).origin,
                   slash |->
                       stripTrailingSlash(internalApiUrl(pathname)).slash,
                   pathname |-> pathname,
                   search |-> search]]
    ELSE [kind |-> "next", url |-> NoUrl]

\* ----------------------------------------------------- content preferences
DEFAULT_PREFERENCES == [textSize |-> 100, fontFamily |-> "inter"]
FontFamilies == {"inter", "georgia"}

\* localStorage.getItem(STORAGE_KEY) when nothing is stored
NoItem == <<"null">>
JSON_stringify(value) == <<"json", value>>
Parses(item) == Len(item) = 2 /\ item[1] = "json"
JSON_parse(item) == item[2]

\* { ...prev, ...updates }
Spread(prev, updates) ==
    [k \in DOMAIN prev \cup DOMAIN updates |->
        IF k \in DOMAIN updates THEN updates[k] ELSE prev[k]]

Min(a, b) == IF a <= b THEN a ELSE b
Max(a, b) == IF a >= b THEN a ELSE b

\* sizes a caller passes to updateTextSize
Sizes == {0, 74, 75, 130, 200, 201, 500}
\* objects a caller passes to updatePreferences
Updates ==
    {[textSize |-> s] : s \in {50, 120, 500}}
    \cup {[fontFamily |-> f] : f \in FontFamilies}
    \cup {[textSize |-> 90, fontFamily |-> "georgia"]}

\* ------------------------------------------------------------- initSurreal
\* the five payloads of signinAttempts, by their position in the list
SigninAttempts == 1..5
\* what the store accepts at the moment: the connection, some of the
\* payload shapes, the use call
ShapeSets == {{}, {1}, {3}, {5}, {2, 4}}
Stores == [connect : BOOLEAN, shapes : ShapeSets, use : BOOLEAN]
Refuses == [connect |-> FALSE, shapes |-> {}, use |-> FALSE]

\* -------------------------------------------------------- client auth store
\* the calls of the auth store that run at the same time
Callers == {1, 2}
NoError == "null"
\* lastAuthCheck: null
NoCheck == 0
\* a call of the store that is waiting for its response: the value of
\* Date.now() it read, and whether logout ran while it was waiting
NoCall == [now |-> 0, beforeLogout |-> FALSE]
\* what the last call that ended gave its caller
NoReturn == [c |-> 0, op |-> "none", returned |-> "none", contacted |-> FALSE]

\* what a request of the store ends with: a response with its status, or
\* an error thrown by getAuthApiUrl or fetch
Statuses == {200, 400, 401, 403, 500}
Thrown == {"TypeError: Failed to fetch", "Error: timeout", "not an Error"}
Outcomes ==
    {[kind |-> "response", status |-> s, thrown |-> ""] : s \in Statuses}
    \cup {[kind |-> "throw", status |-> 0, thrown |-> t] : t \in Thrown}
\* response.ok
Ok(outcome) ==
    outcome.kind = "response" /\ outcome.status >= 200 /\ outcome.status <= 299

\* auth-store.ts 86-95
loginStatusMessage(status) ==
    IF status = 401 THEN "Invalid credentials. Please try again."
    ELSE IF status = 403
    THEN "Access denied. Please check your credentials."
    ELSE IF status >= 500 THEN "Server error. Please try again later."
    ELSE "Authentication failed (status)"

\* auth-store.ts 104-113
loginThrownMessage(thrown) ==
    IF thrown = "TypeError: Failed to fetch"
    THEN "Unable to connect to auth service. Please check if the API is running."
    ELSE IF thrown = "not an Error"
    THEN "An unexpected error occurred during authentication"
    ELSE "Network error: message"

\* the clock of the browser counts periods of 15 s; 30000 ms are two
StaleAfter == 2

\* ---------------------------------------------------------- content toolbar
NoExport == [format |-> "none", htmlContent |-> FALSE]

\* the four formats of ExportFormat, and one that is none of them
Formats == {"pdf", "docx", "markdown", "txt", "html"}

\* format.toUpperCase()
toUpperCase(format) ==
    CASE format = "pdf" -> "PDF"
      [] format = "docx" -> "DOCX"
      [] format = "markdown" -> "MARKDOWN"
      [] format = "txt" -> "TXT"
      [] format = "html" -> "HTML"

\* how exportContent can settle for a format and options: an unsupported
\* format and a PDF without htmlContent throw, every exporter can fail
exportContent(format, htmlContent) ==
    IF format \notin {"pdf", "docx", "markdown", "txt"}
    THEN {"rejected"}
    ELSE IF format = "pdf" /\ ~htmlContent
    THEN {"rejected"}
    ELSE {"fulfilled", "rejected"}

\* ------------------------------------------------------------ worker state
NoFrame == [op |-> "none", email |-> "", password |-> "",
            refreshToken |-> NoToken, session |-> NoSession,
            user |-> NoUser, jwt_id |-> 0, access |-> NoToken,
            refresh |-> NoToken, meta |-> NoMeta]

\* the outcome of the call that ended last: what it was given, how it
\* ended, what it handed to its caller, how many store operations it ran
\* and, for a controller, what it did to the response, in order
NoResult == [w |-> 0, op |-> "none", email |-> "", password |-> "",
             presented |-> NoToken, kind |-> "none", status |-> 0,
             message |-> "", user |-> NoUser, access |-> NoToken,
             refresh |-> NoToken, storeOps |-> 0, effects |-> <<>>,
             cookies |-> <<>>]

\* a request is taken by the lowest-numbered worker that is not serving one
Free(w) == pc[w] = "idle" /\ \A v \in Workers : v < w => pc[v] # "idle"

\* the value of the next draw of the 128-bit random generator: an
\* identifier that no earlier draw has returned (nextJti numbers the draws)
cryptoRandomId == nextJti

\* identifiers returned by earlier draws, which a colliding draw repeats
DrawnIds == 1..(nextJti - 1)

\* everything but the configuration
Constructed ==
    /\ sessions = <<>>
    /\ now = 1
    /\ nextJti = 1
    /\ pc = [w \in Workers |-> "idle"]
    /\ frame = [w \in Workers |-> NoFrame]
    /\ result = NoResult
    /\ issued = {}
    /\ used = {}
    /\ lineage = {}
    /\ isAuthenticated \in BOOLEAN
    /\ users = Users
    /\ request = NoRequest
    /\ response = NoResponse
    /\ preferences = DEFAULT_PREFERENCES
    /\ isLoaded = FALSE
    /\ localStorage = NoItem
    /\ surrealPc = "not started"
    /\ signins = <<>>
    /\ signedIn = FALSE
    /\ timers = 0
    /\ globalWebSocket = FALSE
    /\ isLoading = FALSE
    /\ error = NoError
    /\ lastAuthCheck = NoCheck
    /\ isCheckingAuth = FALSE
    /\ authRequired = "null"
    /\ clock = 1
    /\ cpc = [c \in Callers |-> "idle"]
    /\ cframe = [c \in Callers |-> NoCall]
    /\ cresult = NoReturn
    /\ isExporting = FALSE
    /\ exports = [c \in Callers |-> NoExport]
    /\ toast = ""

\* a deployment whose two secrets differ
Init ==
    /\ Constructed
    /\ env = TwoSecrets
    /\ processEnv = ComposeEnv
    /\ accepts = Refuses

\* --------------------------------------------------- loginWithPassword
\* variant: the bcrypt comparison result is not checked
loginRejects_SkipsCompare(user, password) ==
    \/ user = NoUser
    \/ user.password_hash = NoHash

\* authService.js 21-33: TRUE when either 401 'Invalid credentials' is thrown
loginRejects(user, password) ==
    \/ user = NoUser
    \/ user.password_hash = NoHash
    \/ ~bcryptCompare(password, user.password_hash)

\* variant: the access token is hashed instead of the refresh token
loginSessionRow_HashesAccess(f) ==
    [user_id |-> f.user.id, jwt_id |-> f.jwt_id, ip |-> f.meta.ip,
     user_agent |-> f.meta.user_agent, refresh_hash |-> hashToken(f.access)]

\* authService.js 39-45: the row handed to createSession
loginSessionRow(f) ==
    [user_id |-> f.user.id, jwt_id |-> f.jwt_id, ip |-> f.meta.ip,
     user_agent |-> f.meta.user_agent, refresh_hash |-> hashToken(f.refresh)]

\* variant: the payload reads a property the user record does not have,
\* so the token carries no subject
loginAccess_NoSubject(user, t) == signAccessToken(NoUser.id, user.email, t)

\* authService.js 36: the access token of a login
loginAccess(user, t) == signAccessToken(user.id, user.email, t)

\* authService.js 20-37: up to the call of createSession
loginWithPassword_call(w, email, password, meta, jti) ==
    /\ Free(w)
    /\ LET user == findUserByEmail(email) IN
       IF loginRejects(user, password)
       THEN /\ result' = [NoResult EXCEPT !.w = w, !.op = "login",
                             !.email = email, !.password = password,
                             !.kind = "throw", !.status = 401,
                             !.message = "Invalid credentials"]
            /\ UNCHANGED <<pc, frame, nextJti>>
       ELSE /\ nextJti <= MaxJti
            /\ pc' = [pc EXCEPT ![w] = "login_create"]
            /\ frame' = [frame EXCEPT ![w] =
                   [NoFrame EXCEPT !.op = "login", !.email = email,
                       !.password = password, !.meta = meta,
                       !.user = user, !.jwt_id = jti,
                       !.access = loginAccess(user, now),
                       !.refresh = signRefreshToken(user.id, jti, now)]]
            /\ nextJti' = nextJti + 1
            /\ UNCHANGED result
    /\ UNCHANGED <<sessions, now, issued, used, lineage, isAuthenticated, env, users, boot,
                   frontend>>

\* authService.js 39-47: createSession resolves or rejects, then return
loginWithPassword_create(w) ==
    /\ pc[w] = "login_create"
    /\ pc' = [pc EXCEPT ![w] = "idle"]
    /\ frame' = [frame EXCEPT ![w] = NoFrame]
    /\ LET f == frame[w]
           base == [NoResult EXCEPT !.w = w, !.op = "login",
                       !.email = f.email, !.password = f.password,
                       !.storeOps = 1]
       IN  IF createSessionConflict(sessions, loginSessionRow(f).jwt_id)
           THEN /\ result' = [base EXCEPT !.kind = "throw",
                                          !.message = "Conflict"]
                /\ UNCHANGED <<sessions, issued>>
           ELSE /\ sessions' = createSession(sessions, loginSessionRow(f))
                /\ result' = [base EXCEPT !.kind = "return",
                                 !.user = f.user, !.access = f.access,
                                 !.refresh = f.refresh]
                /\ issued' = issued \cup {f.refresh}
    /\ UNCHANGED <<now, nextJti, used, lineage, isAuthenticated, env, users, boot,
                   frontend>>

\* ------------------------------------------------------ refreshSession
\* variant: only a missing session is rejected, a revoked one is not
refreshRejects_IgnoresRevoked(session, refreshToken) ==
    IF session = NoSession
    THEN "Session revoked"
    ELSE IF session.refresh_hash # hashToken(refreshToken)
         THEN "Invalid refresh token"
         ELSE ""

\* variant: only a revoked session is rejected, a missing one falls
\* through to the hash comparison
refreshRejects_IgnoresAbsent(session, refreshToken) ==
    IF Truthy(session.revoked_at)
    THEN "Session revoked"
    ELSE IF session.refresh_hash # hashToken(refreshToken)
         THEN "Invalid refresh token"
         ELSE ""

\* variant: the stored hash is not compared with the presented token
refreshRejects_SkipsHash(session, refreshToken) ==
    IF session = NoSession \/ Truthy(session.revoked_at)
    THEN "Session revoked"
    ELSE ""

\* authService.js 53-62: the error thrown after the lookup, "" when none
refreshRejects(session, refreshToken) ==
    IF session = NoSession \/ Truthy(session.revoked_at)
    THEN "Session revoked"
    ELSE IF session.refresh_hash # hashToken(refreshToken)
         THEN "Invalid refresh token"
         ELSE ""

\* variant: the token is decoded without verifying signature and expiry
refreshChecks_SkipsVerify(store, refreshToken, t) ==
    LET session == findSessionByJti(store, refreshToken.jti) IN
    IF refreshRejects(session, refreshToken) # ""
    THEN [message |-> refreshRejects(session, refreshToken), status |-> 401,
          storeOps |-> 1]
    ELSE IF findUserById(refreshToken.sub) = NoUser
    THEN [message |-> "TypeError", status |-> 0, storeOps |-> 2]
    ELSE [message |-> "", status |-> 0, storeOps |-> 2]

\* variant: the new tokens take their subject from the payload, so a token
\* whose user is gone is not stopped by the missing record
refreshChecks_SubFromPayload(store, refreshToken, t) ==
    LET session == findSessionByJti(store, refreshToken.jti) IN
    IF ~verifyRefreshToken(refreshToken, t)
    THEN [message |-> "jwt invalid", status |-> 0, storeOps |-> 0]
    ELSE IF refreshRejects(session, refreshToken) # ""
    THEN [message |-> refreshRejects(session, refreshToken), status |-> 401,
          storeOps |-> 1]
    ELSE [message |-> "", status |-> 0, storeOps |-> 2]

\* authService.js 51-65: the error that ends the call before it writes, with
\* its status and the number of store reads made so far; message "" when
\* the call goes on to rotate
refreshChecks(store, refreshToken, t) ==
    LET session == findSessionByJti(store, refreshToken.jti) IN
    IF ~verifyRefreshToken(refreshToken, t)
    THEN [message |-> "jwt invalid", status |-> 0, storeOps |-> 0]
    ELSE IF refreshRejects(session, refreshToken) # ""
    THEN [message |-> refreshRejects(session, refreshToken), status |-> 401,
          storeOps |-> 1]
    ELSE IF findUserById(refreshToken.sub) = NoUser
    THEN [message |-> "TypeError", status |-> 0, storeOps |-> 2]
    ELSE [message |-> "", status |-> 0, storeOps |-> 2]

\* variant: ip and user agent are taken from the refresh request, which
\* carries none, instead of the old session
refreshSessionRow_RequestMeta(f) ==
    [user_id |-> f.user.id, jwt_id |-> f.jwt_id, ip |-> f.meta.ip,
     user_agent |-> f.meta.user_agent,
     refresh_hash |-> hashToken(f.refresh)]

\* variant: the row is built without the hash of the new refresh token
refreshSessionRow_NoHash(f) ==
    [user_id |-> f.user.id, jwt_id |-> f.jwt_id, ip |-> f.session.ip,
     user_agent |-> f.session.user_agent,
     refresh_hash |-> NoSession.refresh_hash]

\* authService.js 69-75: the row handed to createSession
refreshSessionRow(f) ==
    [user_id |-> f.user.id, jwt_id |-> f.jwt_id, ip |-> f.session.ip,
     user_agent |-> f.session.user_agent,
     refresh_hash |-> hashToken(f.refresh)]

\* authService.js 50-66: verification, lookup, checks, new token pair
refreshSession_find(w, refreshToken, jti) ==
    /\ Free(w)
    /\ LET chk == refreshChecks(sessions, refreshToken, now)
           session == findSessionByJti(sessions, refreshToken.jti)
           user == findUserById(refreshToken.sub)
       IN  /\ used' = IF chk.storeOps > 0 /\ refreshToken \in issued
                      THEN used \cup {refreshToken} ELSE used
           /\ IF chk.message # ""
              THEN /\ result' = [NoResult EXCEPT !.w = w, !.op = "refresh",
                                    !.presented = refreshToken,
                                    !.kind = "throw", !.status = chk.status,
                                    !.message = chk.message,
                                    !.storeOps = chk.storeOps]
                   /\ UNCHANGED <<pc, frame, nextJti>>
              ELSE /\ nextJti <= MaxJti
                   /\ pc' = [pc EXCEPT ![w] = "refresh_revoke"]
                   /\ frame' = [frame EXCEPT ![w] =
                          [NoFrame EXCEPT !.op = "refresh",
                             !.refreshToken = refreshToken,
                             !.session = session,
                             !.user = user, !.jwt_id = jti,
                             !.access = signAccessToken(user.id, user.email, now),
                             !.refresh = signRefreshToken(user.id, jti, now)]]
                   /\ nextJti' = nextJti + 1
                   /\ UNCHANGED result
    /\ UNCHANGED <<sessions, now, issued, lineage, isAuthenticated, env, users, boot,
                   frontend>>

\* variant: the old session is deleted instead of revoked
refreshSession_revoke_Deletes(w) ==
    /\ pc[w] = "refresh_revoke"
    /\ sessions' = SelectSeq(sessions, LAMBDA x : x.id # frame[w].session.id)
    /\ pc' = [pc EXCEPT ![w] = "refresh_create"]
    /\ UNCHANGED <<now, nextJti, frame, result, issued, used, lineage,
                   isAuthenticated, env, users, boot, frontend>>

\* variant: every session of the token's user is revoked, not only the
\* one that was looked up
refreshSession_revoke_AllOfUser(w) ==
    /\ pc[w] = "refresh_revoke"
    /\ sessions' = [i \in 1..Len(sessions) |->
          IF /\ sessions[i].user_id = frame[w].session.user_id
             /\ ~Truthy(sessions[i].revoked_at)
          THEN [sessions[i] EXCEPT !.revoked_at = now]
          ELSE sessions[i]]
    /\ pc' = [pc EXCEPT ![w] = "refresh_create"]
    /\ UNCHANGED <<now, nextJti, frame, result, issued, used, lineage,
                   isAuthenticated, env, users, boot, frontend>>

\* variant: the revocation is not written before createSession is called
refreshSession_revoke_Skips(w) ==
    /\ pc[w] = "refresh_revoke"
    /\ pc' = [pc EXCEPT ![w] = "refresh_create"]
    /\ UNCHANGED <<sessions, now, nextJti, frame, result, issued, used,
                   lineage, isAuthenticated, env, users, boot, frontend>>

\* authService.js 68
refreshSession_revoke(w) ==
    /\ pc[w] = "refresh_revoke"
    /\ sessions' = revokeSession(sessions, frame[w].session.id, now)
    /\ pc' = [pc EXCEPT ![w] = "refresh_create"]
    /\ UNCHANGED <<now, nextJti, frame, result, issued, used, lineage,
                   isAuthenticated, env, users, boot, frontend>>

\* authService.js 69-77
refreshSession_create(w) ==
    /\ pc[w] = "refresh_create"
    /\ pc' = [pc EXCEPT ![w] = "idle"]
    /\ frame' = [frame EXCEPT ![w] = NoFrame]
    /\ LET f == frame[w]
           base == [NoResult EXCEPT !.w = w, !.op = "refresh",
                       !.presented = f.refreshToken, !.storeOps = 4]
       IN  IF createSessionConflict(sessions, refreshSessionRow(f).jwt_id)
           THEN /\ result' = [base EXCEPT !.kind = "throw",
                                          !.message = "Conflict"]
                /\ UNCHANGED <<sessions, issued, lineage>>
           ELSE /\ sessions' = createSession(sessions, refreshSessionRow(f))
                /\ result' = [base EXCEPT !.kind = "return",
                                 !.user = f.user, !.access = f.access,
                                 !.refresh = f.refresh]
                /\ issued' = issued \cup {f.refresh}
                /\ lineage' = lineage \cup
                       {<<f.session.id, Len(sessions) + 1>>}
    /\ UNCHANGED <<now, nextJti, used, isAuthenticated, env, users, boot,
                   frontend>>

\* ------------------------------------------------------ googleCallback
UserAgentHeaders == {""}
Ips == {"10.0.0.2"}
PassportUsers == {findUserByEmail("g@x.com"), NoUser}

\* variant: the session row keeps the refresh token itself, not its hash
googleSessionRow_StoresRaw(f) ==
    [user_id |-> f.user.id, jwt_id |-> f.jwt_id, ip |-> f.meta.ip,
     user_agent |-> f.meta.user_agent, refresh_hash |-> f.refresh]

\* controller 19-25: the row handed to createSession
googleSessionRow(f) ==
    [user_id |-> f.user.id, jwt_id |-> f.jwt_id, ip |-> f.meta.ip,
     user_agent |-> f.meta.user_agent, refresh_hash |-> hashToken(f.refresh)]

\* controller 12-17: passport reports (err, user); user = NoUser is the
\* `false` passport passes when the provider denied the assertion
googleCallback_call(w, err, user, ip, header, jti) ==
    /\ Free(w)
    /\ LET meta == [ip |-> ip,
                    user_agent |-> IF header # "" THEN header ELSE "unknown"]
           base == [NoResult EXCEPT !.w = w, !.op = "google"]
       IN  IF err
           THEN /\ result' = [base EXCEPT !.kind = "next_err"]
                /\ UNCHANGED <<pc, frame, nextJti>>
           ELSE IF user = NoUser
           THEN /\ result' = [base EXCEPT !.kind = "unhandled_rejection",
                                          !.message = "TypeError"]
                /\ UNCHANGED <<pc, frame, nextJti>>
           ELSE /\ nextJti <= MaxJti
                /\ pc' = [pc EXCEPT ![w] = "google_create"]
                /\ frame' = [frame EXCEPT ![w] =
                       [NoFrame EXCEPT !.op = "google", !.meta = meta,
                          !.user = user, !.jwt_id = jti,
                          !.access = signAccessToken(user.id, user.email, now),
                          !.refresh = signRefreshToken(user.id, jti, now)]]
                /\ nextJti' = nextJti + 1
                /\ UNCHANGED result
    /\ UNCHANGED <<sessions, now, issued, used, lineage, isAuthenticated, env, users, boot,
                   frontend>>

\* controller 27-29: what the controller does to the response once
\* createSession has resolved
PostLoginResponse == <<"cookie access_token", "cookie refresh_token",
                       "redirect /notebooks">>

\* controller 27-28: the options each cookie is set with
PostLoginCookies ==
    << [name |-> "access_token", options |-> createCookieOptions(FALSE)],
       [name |-> "refresh_token", options |-> createCookieOptions(TRUE)] >>

\* variant: the cookies are set before createSession is awaited, so they
\* are on the response also when the insert fails
googleCallback_create_CookiesFirst(w) ==
    /\ pc[w] = "google_create"
    /\ pc' = [pc EXCEPT ![w] = "idle"]
    /\ frame' = [frame EXCEPT ![w] = NoFrame]
    /\ LET f == frame[w]
           base == [NoResult EXCEPT !.w = w, !.op = "google", !.storeOps = 1,
                       !.access = f.access, !.refresh = f.refresh]
       IN  IF createSessionConflict(sessions, googleSessionRow(f).jwt_id)
           THEN /\ result' = [base EXCEPT !.kind = "unhandled_rejection",
                                  !.message = "Conflict",
                                  !.effects = <<"cookie access_token",
                                                "cookie refresh_token",
                                                "createSession">>]
                /\ issued' = issued \cup {f.refresh}
                /\ UNCHANGED sessions
           ELSE /\ sessions' = createSession(sessions, googleSessionRow(f))
                /\ result' = [base EXCEPT !.kind = "redirect",
                                 !.user = f.user,
                                 !.effects = <<"cookie access_token",
                                               "cookie refresh_token",
                                               "createSession",
                                               "redirect /notebooks">>]
                /\ issued' = issued \cup {f.refresh}
    /\ UNCHANGED <<now, nextJti, used, lineage, isAuthenticated, env, users, boot,
                   frontend>>

\* controller 19-29: createSession, then the two cookies and the redirect
googleCallback_create(w) ==
    /\ pc[w] = "google_create"
    /\ pc' = [pc EXCEPT ![w] = "idle"]
    /\ frame' = [frame EXCEPT ![w] = NoFrame]
    /\ LET f == frame[w]
           base == [NoResult EXCEPT !.w = w, !.op = "google", !.storeOps = 1]
       IN  IF createSessionConflict(sessions, googleSessionRow(f).jwt_id)
           THEN /\ result' = [base EXCEPT !.kind = "unhandled_rejection",
                                  !.message = "Conflict",
                                  !.effects = <<"createSession">>]
                /\ UNCHANGED <<sessions, issued>>
           ELSE /\ sessions' = createSession(sessions, googleSessionRow(f))
                /\ result' = [base EXCEPT !.kind = "redirect",
                                 !.user = f.user, !.access = f.access,
                                 !.refresh = f.refresh,
                                 !.effects = <<"createSession">>
                                                \o PostLoginResponse,
                                 !.cookies = PostLoginCookies]
                /\ issued' = issued \cup {f.refresh}
    /\ UNCHANGED <<now, nextJti, used, lineage, isAuthenticated, env, users, boot,
                   frontend>>

\* ------------------------------------------------------- auth middleware
\* TRUE when verification returns the payload, FALSE when it throws
verifyAccessToken(token, t) ==
    /\ token.key = env.ACCESS_SECRET
    /\ t < token.exp

Unauthorized == [kind |-> "respond", status |-> 401,
                 message |-> "Unauthorized", user |-> NoUser]

\* variant: a token whose user is gone is let through without req.user
authOutcome_SkipsUserCheck(cookie, t) ==
    IF cookie = NoToken
    THEN Unauthorized
    ELSE IF ~verifyAccessToken(cookie, t)
    THEN Unauthorized
    ELSE [kind |-> "next", status |-> 0, message |-> "",
          user |-> findUserById(cookie.sub)]

\* variant: the token's expiry is not checked
authOutcome_IgnoresExpiry(cookie, t) ==
    IF cookie = NoToken
    THEN Unauthorized
    ELSE IF cookie.key # env.ACCESS_SECRET
    THEN Unauthorized
    ELSE IF findUserById(cookie.sub) = NoUser
    THEN Unauthorized
    ELSE [kind |-> "next", status |-> 0, message |-> "",
          user |-> findUserById(cookie.sub)]

\* variant: the user must also hold an active session
authOutcome_ReadsSessions(cookie, t) ==
    IF cookie = NoToken
    THEN Unauthorized
    ELSE IF ~verifyAccessToken(cookie, t)
    THEN Unauthorized
    ELSE IF findUserById(cookie.sub) = NoUser
    THEN Unauthorized
    ELSE IF ~\E i \in 1..Len(sessions) :
                /\ sessions[i].user_id = cookie.sub
                /\ sessions[i].revoked_at = 0
    THEN Unauthorized
    ELSE [kind |-> "next", status |-> 0, message |-> "",
          user |-> findUserById(cookie.sub)]

\* auth.js 5-19: what the middleware does with the access_token cookie;
\* NoToken is the absent cookie
authOutcome(cookie, t) ==
    IF cookie = NoToken
    THEN Unauthorized
    ELSE IF ~verifyAccessToken(cookie, t)
    THEN Unauthorized
    ELSE IF findUserById(cookie.sub) = NoUser
    THEN Unauthorized
    ELSE [kind |-> "next", status |-> 0, message |-> "",
          user |-> findUserById(cookie.sub)]

\* auth.js 4-20: one request through the middleware; result.user is
\* req.user after it
auth(cookie) ==
    /\ LET out == authOutcome(cookie, now) IN
       result' = [NoResult EXCEPT !.op = "auth", !.presented = cookie,
                     !.kind = out.kind, !.status = out.status,
                     !.message = out.message, !.user = out.user]
    /\ UNCHANGED <<sessions, now, nextJti, pc, frame, issued, used, lineage,
                   isAuthenticated, env, users, boot, frontend>>

\* ---------------------------------------------------------------- logout
\* auth-store.ts 170-175: client state only, no request to the service
logout ==
    /\ isAuthenticated' = FALSE
    /\ error' = NoError
    /\ cframe' = [c \in Callers |->
                     IF cpc[c] = "idle" THEN cframe[c]
                     ELSE [cframe[c] EXCEPT !.beforeLogout = TRUE]]
    /\ UNCHANGED <<sessions, now, nextJti, pc, frame, result, issued, used,
                   lineage, env, users, boot,
                   processEnv, request, response,
                   preferences, isLoaded, localStorage,
                   isLoading, lastAuthCheck, isCheckingAuth, authRequired,
                   clock, cpc, cresult, toolbar>>

\* ------------------------------------------------- tokens a caller presents
Tampered(t) == [t EXCEPT !.key = "forged"]
SameJtiOtherSub(t) == [t EXCEPT !.sub = 3 - t.sub]
UnknownJti(t) == [t EXCEPT !.jti = 0]

PresentableTokens ==
    issued \cup {Tampered(t) : t \in issued}
           \cup {SameJtiOtherSub(t) : t \in issued}
           \cup {UnknownJti(t) : t \in issued}

Tick ==
    /\ now < MaxTime
    /\ now' = now + 1
    /\ UNCHANGED <<sessions, nextJti, pc, frame, result, issued, used,
                   lineage, isAuthenticated, env, users, boot, frontend>>

\* the service alone: the client store keeps its constructed value
\* (auth-store.ts 23) and takes no step
InitService == Init /\ ~isAuthenticated

\* --------------------------------------------- well-formed requests
\* callers that hold what the service gave them: the right password, a
\* refresh token the service issued (fresh, replayed or expired), a
\* provider assertion passport accepted; the client may log out
Next ==
    \/ Tick
    \/ logout
    \/ \E w \in Workers, meta \in Metas :
          loginWithPassword_call(w, "a@x.com", "correct", meta,
                                 cryptoRandomId)
    \/ \E w \in Workers : loginWithPassword_create(w)
    \/ \E w \in Workers, t \in issued :
          refreshSession_find(w, t, cryptoRandomId)
    \/ \E w \in Workers : refreshSession_revoke(w)
    \/ \E w \in Workers : refreshSession_create(w)
    \/ \E w \in Workers, ip \in Ips, header \in UserAgentHeaders :
          googleCallback_call(w, FALSE, findUserByEmail("g@x.com"), ip,
                              header, cryptoRandomId)
    \/ \E w \in Workers : googleCallback_create(w)

Spec == Init /\ [][Next]_vars

\* ------------------------------------------------ arbitrary requests
\* loginWithPassword and refreshSession given any credentials and any
\* token: issued ones, forged ones, ones naming no session or a session
\* bound to another token
NextR ==
    \/ Tick
    \/ \E w \in Workers, email \in Emails, password \in Passwords,
          meta \in Metas :
          loginWithPassword_call(w, email, password, meta, cryptoRandomId)
    \/ \E w \in Workers : loginWithPassword_create(w)
    \/ \E w \in Workers, t \in PresentableTokens :
          refreshSession_find(w, t, cryptoRandomId)
    \/ \E w \in Workers : refreshSession_revoke(w)
    \/ \E w \in Workers : refreshSession_create(w)

SpecR == InitService /\ [][NextR]_vars

\* ------------------------------------------- colliding identifier draws
\* a draw of the generator returns a fresh identifier or repeats an
\* earlier one; passport reports any of its outcomes
DrawableIds == DrawnIds \cup {cryptoRandomId}

NextF ==
    \/ \E w \in Workers, meta \in Metas, jti \in DrawableIds :
          loginWithPassword_call(w, "a@x.com", "correct", meta, jti)
    \/ \E w \in Workers : loginWithPassword_create(w)
    \/ \E w \in Workers, t \in issued, jti \in DrawableIds :
          refreshSession_find(w, t, jti)
    \/ \E w \in Workers : refreshSession_revoke(w)
    \/ \E w \in Workers : refreshSession_create(w)
    \/ \E w \in Workers, err \in BOOLEAN, user \in PassportUsers,
          ip \in Ips, header \in UserAgentHeaders, jti \in DrawableIds :
          googleCallback_call(w, err, user, ip, header, jti)
    \/ \E w \in Workers : googleCallback_create(w)

SpecF == InitService /\ [][NextF]_vars

\* ------------------------------------------- requests behind the middleware
\* the access token that was signed in the same call as refresh token r
AccessOf(r) == signAccessToken(r.sub, findUserById(r.sub).email, r.iat)
IssuedAccess == {AccessOf(r) : r \in issued}

\* a token the service signed for a user whose record no longer exists
UserGone(t) == [t EXCEPT !.sub = 3]

\* what a caller can put in the access_token cookie: nothing, an access
\* token it was given, a refresh token it was given, a forged token, a
\* token of a user that is gone
PresentableCookies ==
    {NoToken} \cup IssuedAccess \cup issued
              \cup {Tampered(a) : a \in IssuedAccess}
              \cup {UserGone(a) : a \in IssuedAccess}

\* the service in either configuration of its secrets
InitA ==
    /\ Constructed
    /\ ~isAuthenticated
    /\ env \in Envs
    /\ processEnv = ComposeEnv
    /\ accepts = Refuses

NextA ==
    \/ Tick
    \/ \E w \in Workers, meta \in Metas :
          loginWithPassword_call(w, "a@x.com", "correct", meta,
                                 cryptoRandomId)
    \/ \E w \in Workers : loginWithPassword_create(w)
    \/ \E w \in Workers, t \in issued \cup IssuedAccess :
          refreshSession_find(w, t, cryptoRandomId)
    \/ \E w \in Workers : refreshSession_revoke(w)
    \/ \E w \in Workers : refreshSession_create(w)
    \/ \E cookie \in PresentableCookies : auth(cookie)

SpecA == InitA /\ [][NextA]_vars

\* --------------------------------------------------- store calls settle
\* the colliding-draw behaviours in which every awaited store call is
\* answered: the continuation after an await runs once the store has
\* resolved or rejected
FairSteps ==
    \A w \in Workers :
        /\ WF_vars(loginWithPassword_create(w))
        /\ WF_vars(refreshSession_revoke(w))
        /\ WF_vars(refreshSession_create(w))
        /\ WF_vars(googleCallback_create(w))

SpecFL == SpecF /\ FairSteps

\* ------------------------------------------------ cookies of a deployment
\* the OAuth callback in a deployment with any value of NODE_ENV
InitC ==
    /\ Constructed
    /\ ~isAuthenticated
    /\ env \in {[TwoSecrets EXCEPT !.NODE_ENV = n] : n \in NodeEnvs}
    /\ processEnv = ComposeEnv
    /\ accepts = Refuses

NextC ==
    \/ Tick
    \/ \E w \in Workers, err \in BOOLEAN, user \in PassportUsers,
          ip \in Ips, header \in UserAgentHeaders :
          googleCallback_call(w, err, user, ip, header, cryptoRandomId)
    \/ \E w \in Workers : googleCallback_create(w)

SpecC == InitC /\ [][NextC]_vars

\* ------------------------------------------------- requests to the frontend
\* middleware.ts 4-34
middleware(pathname, search) ==
    /\ matcher(pathname)
    /\ request' = [pathname |-> pathname, search |-> search]
    /\ response' = middlewareResponse(pathname, search)
    /\ UNCHANGED <<service, processEnv, preferences, isLoaded, localStorage,
                   authStore, toolbar>>

InitM ==
    /\ Constructed
    /\ ~isAuthenticated
    /\ env = TwoSecrets
    /\ processEnv \in ProcessEnvs
    /\ accepts = Refuses

NextM ==
    \E pathname \in Pathnames, search \in Searches :
        middleware(pathname, search)

SpecM == InitM /\ [][NextM]_vars

\* -------------------------------------------------- useContentPreferences
\* a component mounts: useState(DEFAULT_PREFERENCES), useState(false)
useContentPreferences_mount ==
    /\ preferences' = DEFAULT_PREFERENCES
    /\ isLoaded' = FALSE
    /\ UNCHANGED <<service, processEnv, request, response, localStorage,
                   authStore, toolbar>>

\* the effect that runs after the first render
useContentPreferences_load ==
    /\ ~isLoaded
    /\ preferences' =
          IF localStorage # NoItem /\ Parses(localStorage)
          THEN Spread(DEFAULT_PREFERENCES, JSON_parse(localStorage))
          ELSE preferences
    /\ isLoaded' = TRUE
    /\ UNCHANGED <<service, processEnv, request, response, localStorage,
                   authStore, toolbar>>

\* saved is false when localStorage.setItem throws, which is caught
updatePreferences(updates, saved) ==
    LET updated == Spread(preferences, updates) IN
    /\ preferences' = updated
    /\ localStorage' = IF saved THEN JSON_stringify(updated)
                                ELSE localStorage
    /\ UNCHANGED <<service, processEnv, request, response, isLoaded,
                   authStore, toolbar>>

updateTextSize(size, saved) ==
    updatePreferences([textSize |-> Max(75, Min(200, size))], saved)

updateFontFamily(font, saved) ==
    updatePreferences([fontFamily |-> font], saved)

resetPreferences(saved) == updatePreferences(DEFAULT_PREFERENCES, saved)

\* ContentToolbar
handleIncreaseTextSize(saved) ==
    updateTextSize(Min(200, preferences.textSize + 10), saved)

handleDecreaseTextSize(saved) ==
    updateTextSize(Max(75, preferences.textSize - 10), saved)

NextP ==
    \/ useContentPreferences_mount
    \/ useContentPreferences_load
    \/ \E saved \in BOOLEAN :
          \/ \E updates \in Updates : updatePreferences(updates, saved)
          \/ \E size \in Sizes : updateTextSize(size, saved)
          \/ \E font \in FontFamilies : updateFontFamily(font, saved)
          \/ resetPreferences(saved)
          \/ handleIncreaseTextSize(saved)
          \/ handleDecreaseTextSize(saved)

SpecP == InitService /\ [][NextP]_vars

\* ------------------------------------------------- accounts that disappear
\* the user record is removed by another component while sessions and
\* tokens of the user are still around
userRemoved(id) ==
    /\ \E u \in users : u.id = id
    /\ users' = {u \in users : u.id # id}
    /\ UNCHANGED <<sessions, now, nextJti, pc, frame, result, issued, used,
                   lineage, isAuthenticated, env, boot, frontend>>

\* tokens the service signed, fresh, replayed or expired, and such tokens
\* with their subject or identifier altered
SignedOrAltered ==
    issued \cup {SameJtiOtherSub(t) : t \in issued}
           \cup {UnknownJti(t) : t \in issued}

NextU ==
    \/ Tick
    \/ \E w \in Workers, meta \in Metas :
          loginWithPassword_call(w, "a@x.com", "correct", meta,
                                 cryptoRandomId)
    \/ \E w \in Workers : loginWithPassword_create(w)
    \/ \E w \in Workers, t \in SignedOrAltered :
          refreshSession_find(w, t, cryptoRandomId)
    \/ \E w \in Workers : refreshSession_revoke(w)
    \/ \E w \in Workers : refreshSession_create(w)
    \/ userRemoved(1)

SpecU == InitService /\ [][NextU]_vars

\* ------------------------------------------------------------- initSurreal
\* part_002 45-46, 88-91: the catch block logs and schedules one retry
scheduleRetry ==
    /\ surrealPc' = "waiting"
    /\ timers' = timers + 1

\* part_002 41-46: the body up to the first await
beginAttempt ==
    /\ globalWebSocket' = TRUE
    /\ signins' = <<>>
    /\ signedIn' = FALSE
    /\ surrealPc' = "connect"

\* the call made when the service starts
initSurreal ==
    /\ surrealPc = "not started"
    /\ beginAttempt
    /\ UNCHANGED <<timers, accepts>>
    /\ UNCHANGED <<sessions, now, nextJti, pc, frame, result, issued, used,
                   lineage, isAuthenticated, env, users, frontend>>

\* part_002 90: the timer set by the catch block fires
initSurreal_retry ==
    /\ surrealPc = "waiting"
    /\ timers > 0
    /\ timers' = timers - 1
    /\ beginAttempt
    /\ UNCHANGED accepts
    /\ UNCHANGED <<sessions, now, nextJti, pc, frame, result, issued, used,
                   lineage, isAuthenticated, env, users, frontend>>

\* part_002 46-73: surreal.connect settles; on success the first payload
\* is sent
initSurreal_connect ==
    /\ surrealPc = "connect"
    /\ IF accepts.connect
       THEN /\ surrealPc' = "signin"
            /\ signins' = <<1>>
            /\ UNCHANGED timers
       ELSE /\ scheduleRetry
            /\ UNCHANGED signins
    /\ UNCHANGED <<signedIn, accepts, globalWebSocket>>
    /\ UNCHANGED <<sessions, now, nextJti, pc, frame, result, issued, used,
                   lineage, isAuthenticated, env, users, frontend>>

\* part_002 72-86: surreal.signin settles; success breaks the loop and
\* calls surreal.use, failure sends the next payload or, after the last
\* one, throws lastError
initSurreal_signin ==
    /\ surrealPc = "signin"
    /\ LET payload == signins[Len(signins)] IN
       IF payload \in accepts.shapes
       THEN /\ signedIn' = TRUE
            /\ surrealPc' = "use"
            /\ UNCHANGED <<signins, timers>>
       ELSE IF payload + 1 \in SigninAttempts
       THEN /\ signins' = Append(signins, payload + 1)
            /\ UNCHANGED <<surrealPc, signedIn, timers>>
       ELSE /\ scheduleRetry
            /\ UNCHANGED <<signins, signedIn>>
    /\ UNCHANGED <<accepts, globalWebSocket>>
    /\ UNCHANGED <<sessions, now, nextJti, pc, frame, result, issued, used,
                   lineage, isAuthenticated, env, users, frontend>>

\* variant: the use call is outside the try block, so its failure rejects
\* the promise of initSurreal and schedules nothing
initSurreal_use_Uncaught ==
    /\ surrealPc = "use"
    /\ surrealPc' = IF accepts.use THEN "done" ELSE "rejected"
    /\ UNCHANGED <<signins, signedIn, timers, accepts, globalWebSocket>>
    /\ UNCHANGED <<sessions, now, nextJti, pc, frame, result, issued, used,
                   lineage, isAuthenticated, env, users, frontend>>

\* part_002 86-91: surreal.use settles
initSurreal_use ==
    /\ surrealPc = "use"
    /\ IF accepts.use
       THEN /\ surrealPc' = "done"
            /\ UNCHANGED timers
       ELSE scheduleRetry
    /\ UNCHANGED <<signins, signedIn, accepts, globalWebSocket>>
    /\ UNCHANGED <<sessions, now, nextJti, pc, frame, result, issued, used,
                   lineage, isAuthenticated, env, users, frontend>>

\* the store comes up, goes down, or changes the payloads it accepts
storeChanges(store) ==
    /\ store # accepts
    /\ accepts' = store
    /\ UNCHANGED <<surrealPc, signins, signedIn, timers, globalWebSocket>>
    /\ UNCHANGED <<sessions, now, nextJti, pc, frame, result, issued, used,
                   lineage, isAuthenticated, env, users, frontend>>

InitI ==
    /\ Constructed
    /\ ~isAuthenticated
    /\ env = TwoSecrets
    /\ processEnv = ComposeEnv
    /\ accepts \in Stores

NextI ==
    \/ initSurreal
    \/ initSurreal_retry
    \/ initSurreal_connect
    \/ initSurreal_signin
    \/ initSurreal_use
    \/ \E store \in Stores : storeChanges(store)

SpecI == InitI /\ [][NextI]_vars

\* the event loop runs every callback that is ready: a settled promise
\* continues, a timer that is due fires
FairBoot ==
    /\ WF_vars(initSurreal)
    /\ WF_vars(initSurreal_retry)
    /\ WF_vars(initSurreal_connect)
    /\ WF_vars(initSurreal_signin)
    /\ WF_vars(initSurreal_use)

SpecIL == SpecI /\ FairBoot

\* --------------------------------------------------- calls of the auth store
\* what the client calls leave alone
backend == <<sessions, now, nextJti, pc, frame, result, issued, used, lineage,
             env, users, boot>>
page == <<processEnv, request, response, preferences, isLoaded, localStorage,
          toolbar>>

Returns(c, op, value, contacted) ==
    cresult' = [c |-> c, op |-> op, returned |-> value,
                contacted |-> contacted]

\* auth-store.ts 66-76: login up to its awaits
login_call(c) ==
    /\ cpc[c] = "idle"
    /\ isLoading' = TRUE
    /\ error' = NoError
    /\ cpc' = [cpc EXCEPT ![c] = "login"]
    /\ cframe' = [cframe EXCEPT ![c] = NoCall]
    /\ UNCHANGED <<isAuthenticated, lastAuthCheck, isCheckingAuth,
                   authRequired, clock, cresult, backend, page>>

\* variant: a failed login leaves the loading flag set
login_settles_KeepsLoading(c, outcome) ==
    /\ cpc[c] = "login"
    /\ cpc' = [cpc EXCEPT ![c] = "idle"]
    /\ cframe' = [cframe EXCEPT ![c] = NoCall]
    /\ IF Ok(outcome)
       THEN /\ isAuthenticated' = TRUE
            /\ isLoading' = FALSE
            /\ lastAuthCheck' = clock
            /\ error' = NoError
            /\ Returns(c, "login", "true", TRUE)
       ELSE /\ error' = IF outcome.kind = "response"
                        THEN loginStatusMessage(outcome.status)
                        ELSE loginThrownMessage(outcome.thrown)
            /\ isAuthenticated' = FALSE
            /\ Returns(c, "login", "false", TRUE)
            /\ UNCHANGED <<isLoading, lastAuthCheck>>
    /\ UNCHANGED <<isCheckingAuth, authRequired, clock, backend, page>>

\* auth-store.ts 77-122: the request of login settles
login_settles(c, outcome) ==
    /\ cpc[c] = "login"
    /\ cpc' = [cpc EXCEPT ![c] = "idle"]
    /\ cframe' = [cframe EXCEPT ![c] = NoCall]
    /\ IF Ok(outcome)
       THEN /\ isAuthenticated' = TRUE
            /\ isLoading' = FALSE
            /\ lastAuthCheck' = clock
            /\ error' = NoError
            /\ Returns(c, "login", "true", TRUE)
       ELSE /\ error' = IF outcome.kind = "response"
                        THEN loginStatusMessage(outcome.status)
                        ELSE loginThrownMessage(outcome.thrown)
            /\ isLoading' = FALSE
            /\ isAuthenticated' = FALSE
            /\ Returns(c, "login", "false", TRUE)
            /\ UNCHANGED lastAuthCheck
    /\ UNCHANGED <<isCheckingAuth, authRequired, clock, backend, page>>

\* auth-store.ts 186-190: checked recently and authenticated
checkedRecently_AnyAge ==
    isAuthenticated /\ lastAuthCheck # NoCheck

checkedRecently ==
    /\ isAuthenticated
    /\ lastAuthCheck # NoCheck
    /\ clock - lastAuthCheck < StaleAfter

\* auth-store.ts 177-193: checkAuth up to its awaits
checkAuth_call(c) ==
    /\ cpc[c] = "idle"
    /\ IF isCheckingAuth
       THEN /\ Returns(c, "checkAuth",
                       IF isAuthenticated THEN "true" ELSE "false", FALSE)
            /\ UNCHANGED <<isCheckingAuth, cpc, cframe>>
       ELSE IF checkedRecently
       THEN /\ Returns(c, "checkAuth", "true", FALSE)
            /\ UNCHANGED <<isCheckingAuth, cpc, cframe>>
       ELSE /\ isCheckingAuth' = TRUE
            /\ cpc' = [cpc EXCEPT ![c] = "checkAuth"]
            /\ cframe' = [cframe EXCEPT ![c] =
                             [now |-> clock, beforeLogout |-> FALSE]]
            /\ UNCHANGED cresult
    /\ UNCHANGED <<isAuthenticated, isLoading, error, lastAuthCheck,
                   authRequired, clock, backend, page>>

\* variant: a request that throws leaves the checking flag set
checkAuth_settles_NoReset(c, outcome) ==
    /\ cpc[c] = "checkAuth"
    /\ cpc' = [cpc EXCEPT ![c] = "idle"]
    /\ cframe' = [cframe EXCEPT ![c] = NoCall]
    /\ IF Ok(outcome)
       THEN /\ isAuthenticated' = TRUE
            /\ lastAuthCheck' = cframe[c].now
            /\ isCheckingAuth' = FALSE
            /\ Returns(c, "checkAuth", "true", TRUE)
       ELSE /\ isAuthenticated' = FALSE
            /\ lastAuthCheck' = NoCheck
            /\ isCheckingAuth' = (outcome.kind = "throw")
            /\ Returns(c, "checkAuth", "false", TRUE)
    /\ UNCHANGED <<isLoading, error, authRequired, clock, backend, page>>

\* auth-store.ts 194-224: the request of checkAuth settles
checkAuth_settles(c, outcome) ==
    /\ cpc[c] = "checkAuth"
    /\ cpc' = [cpc EXCEPT ![c] = "idle"]
    /\ cframe' = [cframe EXCEPT ![c] = NoCall]
    /\ IF Ok(outcome)
       THEN /\ isAuthenticated' = TRUE
            /\ lastAuthCheck' = cframe[c].now
            /\ isCheckingAuth' = FALSE
            /\ Returns(c, "checkAuth", "true", TRUE)
       ELSE /\ isAuthenticated' = FALSE
            /\ lastAuthCheck' = NoCheck
            /\ isCheckingAuth' = FALSE
            /\ Returns(c, "checkAuth", "false", TRUE)
    /\ UNCHANGED <<isLoading, error, authRequired, clock, backend, page>>

\* auth-store.ts 36-40: checkAuthRequired up to its awaits
checkAuthRequired_call(c) ==
    /\ cpc[c] = "idle"
    /\ cpc' = [cpc EXCEPT ![c] = "checkAuthRequired"]
    /\ cframe' = [cframe EXCEPT ![c] = NoCall]
    /\ UNCHANGED <<isAuthenticated, isLoading, error, lastAuthCheck,
                   isCheckingAuth, authRequired, clock, cresult, backend,
                   page>>

\* variant: an error other than a failed fetch leaves authRequired as it was
checkAuthRequired_settles_Open(c, outcome) ==
    /\ cpc[c] = "checkAuthRequired"
    /\ cpc' = [cpc EXCEPT ![c] = "idle"]
    /\ cframe' = [cframe EXCEPT ![c] = NoCall]
    /\ IF Ok(outcome)
       THEN /\ authRequired' = "true"
            /\ Returns(c, "checkAuthRequired", "true", TRUE)
            /\ UNCHANGED error
       ELSE /\ IF outcome.thrown = "TypeError: Failed to fetch"
               THEN /\ error' = "Unable to connect to auth service. Please check if the API is running."
                    /\ authRequired' = "true"
               ELSE UNCHANGED <<error, authRequired>>
            /\ Returns(c, "checkAuthRequired", "throw", TRUE)
    /\ UNCHANGED <<isAuthenticated, isLoading, lastAuthCheck, isCheckingAuth,
                   clock, backend, page>>

\* auth-store.ts 40-63: the health request settles
checkAuthRequired_settles(c, outcome) ==
    /\ cpc[c] = "checkAuthRequired"
    /\ cpc' = [cpc EXCEPT ![c] = "idle"]
    /\ cframe' = [cframe EXCEPT ![c] = NoCall]
    /\ IF Ok(outcome)
       THEN /\ authRequired' = "true"
            /\ Returns(c, "checkAuthRequired", "true", TRUE)
            /\ UNCHANGED error
       ELSE /\ IF outcome.thrown = "TypeError: Failed to fetch"
               THEN /\ error' = "Unable to connect to auth service. Please check if the API is running."
                    /\ authRequired' = "true"
               ELSE /\ authRequired' = "true"
                    /\ UNCHANGED error
            /\ Returns(c, "checkAuthRequired", "throw", TRUE)
    /\ UNCHANGED <<isAuthenticated, isLoading, lastAuthCheck, isCheckingAuth,
                   clock, backend, page>>

\* fifteen seconds pass in the browser
clientTick ==
    /\ clock < MaxClock
    /\ clock' = clock + 1
    /\ UNCHANGED <<isAuthenticated, isLoading, error, lastAuthCheck,
                   isCheckingAuth, authRequired, cpc, cframe, cresult,
                   backend, page>>

\* the store after rehydration: isAuthenticated is the persisted value
InitS ==
    /\ Constructed
    /\ env = TwoSecrets
    /\ processEnv = ComposeEnv
    /\ accepts = Refuses

NextS ==
    \/ clientTick
    \/ logout
    \/ \E c \in Callers : login_call(c)
    \/ \E c \in Callers, outcome \in Outcomes : login_settles(c, outcome)
    \/ \E c \in Callers : checkAuth_call(c)
    \/ \E c \in Callers, outcome \in Outcomes : checkAuth_settles(c, outcome)
    \/ \E c \in Callers : checkAuthRequired_call(c)
    \/ \E c \in Callers, outcome \in Outcomes :
          checkAuthRequired_settles(c, outcome)

SpecS == InitS /\ [][NextS]_vars

\* every request of the store settles: with a response or with an error
FairRequests ==
    \A c \in Callers :
        /\ WF_vars(\E outcome \in Outcomes : login_settles(c, outcome))
        /\ WF_vars(\E outcome \in Outcomes : checkAuth_settles(c, outcome))
        /\ WF_vars(\E outcome \in Outcomes :
                      checkAuthRequired_settles(c, outcome))

SpecSL == SpecS /\ FairRequests

\* ------------------------------------------------------- the content toolbar
\* the export buttons are disabled while isExporting
disabled == isExporting

\* part_004 66-74: handleExport up to its await
handleExport_call(c, format, htmlContent) ==
    /\ exports[c] = NoExport
    /\ isExporting' = TRUE
    /\ exports' = [exports EXCEPT ![c] =
                      [format |-> format, htmlContent |-> htmlContent]]
    /\ UNCHANGED <<toast, service, processEnv, request, response,
                   preferences, isLoaded, localStorage, authStore>>

\* variant: isExporting is reset after a successful export only
handleExport_settles_NoFinally(c, outcome) ==
    /\ exports[c] # NoExport
    /\ outcome \in exportContent(exports[c].format, exports[c].htmlContent)
    /\ IF outcome = "fulfilled"
       THEN /\ toast' = "Exported as " \o toUpperCase(exports[c].format)
            /\ isExporting' = FALSE
       ELSE /\ toast' = "Failed to export as "
                           \o toUpperCase(exports[c].format)
            /\ UNCHANGED isExporting
    /\ exports' = [exports EXCEPT ![c] = NoExport]
    /\ UNCHANGED <<service, processEnv, request, response,
                   preferences, isLoaded, localStorage, authStore>>

\* part_004 74-82: exportContent settles
handleExport_settles(c, outcome) ==
    /\ exports[c] # NoExport
    /\ outcome \in exportContent(exports[c].format, exports[c].htmlContent)
    /\ IF outcome = "fulfilled"
       THEN toast' = "Exported as " \o toUpperCase(exports[c].format)
       ELSE toast' = "Failed to export as " \o toUpperCase(exports[c].format)
    /\ isExporting' = FALSE
    /\ exports' = [exports EXCEPT ![c] = NoExport]
    /\ UNCHANGED <<service, processEnv, request, response,
                   preferences, isLoaded, localStorage, authStore>>

InitT ==
    /\ Constructed
    /\ ~isAuthenticated
    /\ env = TwoSecrets
    /\ processEnv = ComposeEnv
    /\ accepts = Refuses

NextT ==
    \/ \E c \in Callers, format \in Formats, htmlContent \in BOOLEAN :
          handleExport_call(c, format, htmlContent)
    \/ \E c \in Callers, outcome \in {"fulfilled", "rejected"} :
          handleExport_settles(c, outcome)

SpecT == InitT /\ [][NextT]_vars

\* ----------------------------------------------------- shared vocabulary
\* a refresh token that verifies at time t / whose lifetime is over at t
ValidAt(token, t) == token.key = "refresh_secret" /\ t < token.exp
ExpiredAt(token, t) == token.key = "refresh_secret" /\ t >= token.exp

\* no session, or only revoked ones, under the identifier jti
AbsentOrRevoked(store, jti) ==
    \A i \in 1..Len(store) : store[i].jwt_id = jti => store[i].revoked_at # 0

\* an active session under the token's identifier, bound to another token
ActiveWithOtherHash(store, token) ==
    \E i \in 1..Len(store) :
        /\ store[i].jwt_id = token.jti
        /\ store[i].revoked_at = 0
        /\ store[i].refresh_hash # hashToken(token)

\* a successful rotation of the session bound to this token has completed
Consumed(token) ==
    \E p \in lineage : sessions[p[1]].refresh_hash = hashToken(token)

\* the step in which a call of op both starts and ends with an error
RejectedAtOnce(op) == result' # result /\ pc' = pc /\ result'.op = op
\* the step in which worker w passes the checks of a call and goes on
GoesOn(w, label) == pc[w] = "idle" /\ pc'[w] = label
\* the step in which worker w ends a call at its createSession
Finishes(w, label) == pc[w] = label /\ pc'[w] = "idle"

BadCredentials(email, password) ==
    \/ \A u \in Users : u.email # email
    \/ \E u \in Users : /\ u.email = email
                        /\ \/ u.password_hash = NoHash
                           \/ u.password_hash # bcryptHash(password)

\* ------------------------------------------------------------------ C1
\* C1: of the refreshSession calls that present the same refresh token,
\* at most one creates a new session: no two sessions were both created
\* by rotating the same original session.
C1_OneRotationPerToken ==
    \A p \in lineage : \A q \in lineage : p[1] = q[1] => p[2] = q[2]

\* ------------------------------------------------------------------ C2
C2_FirstUseGoesOn ==
    /\ RejectedAtOnce("refresh") =>
          ~(/\ result'.presented \in issued
            /\ result'.presented \notin used
            /\ ValidAt(result'.presented, now))
    /\ \A w \in Workers :
          Finishes(w, "refresh_create") => result'.kind = "return"

C2_NoSecondRotation ==
    \A w \in Workers :
        GoesOn(w, "refresh_revoke") => ~Consumed(frame'[w].refreshToken)

C3_InvalidCredentials ==
    [][/\ (result' # result /\ result'.op = "login"
              /\ BadCredentials(result'.email, result'.password)) =>
             /\ result'.kind = "throw"
             /\ result'.status = 401
             /\ result'.message = "Invalid credentials"
             /\ sessions' = sessions
             /\ pc' = pc
       /\ \A w \in Workers :
             GoesOn(w, "login_create") =>
                ~BadCredentials(frame'[w].email, frame'[w].password)]_vars

C3_Witness ==
    /\ result.op = "login"
    /\ result.email = "a@x.com"
    /\ result.password = "wrong"
    /\ result.status = 401

\* ------------------------------------------------------------------ C4
\* C4: a successful login adds exactly one session: active, owned by the
\* user that logged in, under a token identifier no session had before,
\* with the caller's ip and user agent and the hash of the returned
\* refresh token.
C4_LoginCreatesSession ==
    [][\A w \in Workers :
          (Finishes(w, "login_create") /\ result'.kind = "return") =>
             /\ Len(sessions') = Len(sessions) + 1
             /\ \A i \in 1..Len(sessions) : sessions'[i] = sessions[i]
             /\ LET new == sessions'[Len(sessions')] IN
                /\ new.revoked_at = 0
                /\ new.user_id = result'.user.id
                /\ result'.user.email = result'.email
                /\ new.jwt_id = result'.refresh.jti
                /\ \A i \in 1..Len(sessions) : sessions[i].jwt_id # new.jwt_id
                /\ new.ip = frame[w].meta.ip
                /\ new.user_agent = frame[w].meta.user_agent
                /\ new.refresh_hash = hashToken(result'.refresh)]_vars

C4_Witness ==
    /\ result.op = "login"
    /\ result.kind = "return"
    /\ \E i \in 1..Len(sessions) :
          sessions[i].refresh_hash = hashToken(result.refresh)

\* ------------------------------------------------------------------ C5
\* C5: a refresh with a token that verifies but whose session is absent
\* or revoked ends with 401 'Session revoked' and writes nothing.
C5_SessionRevoked ==
    [][/\ (/\ RejectedAtOnce("refresh")
           /\ ValidAt(result'.presented, now)
           /\ AbsentOrRevoked(sessions, result'.presented.jti)) =>
             /\ result'.kind = "throw"
             /\ result'.status = 401
             /\ result'.message = "Session revoked"
             /\ sessions' = sessions
       /\ \A w \in Workers :
             GoesOn(w, "refresh_revoke") =>
                ~AbsentOrRevoked(sessions, frame'[w].refreshToken.jti)]_vars

C5_Witness ==
    /\ result.op = "refresh"
    /\ result.message = "Session revoked"
    /\ result.presented.key = "refresh_secret"
    /\ \E i \in 1..Len(sessions) :
          /\ sessions[i].jwt_id = result.presented.jti
          /\ sessions[i].revoked_at # 0

\* ------------------------------------------------------------------ C6
\* C6: a refresh with a token that verifies and names an active session
\* bound to another token ends with 401 'Invalid refresh token'; the
\* session stays active and none is created.
C6_InvalidRefreshToken ==
    [][/\ (/\ RejectedAtOnce("refresh")
           /\ ValidAt(result'.presented, now)
           /\ ActiveWithOtherHash(sessions, result'.presented)) =>
             /\ result'.kind = "throw"
             /\ result'.status = 401
             /\ result'.message = "Invalid refresh token"
             /\ sessions' = sessions
       /\ \A w \in Workers :
             GoesOn(w, "refresh_revoke") =>
                ~ActiveWithOtherHash(sessions, frame'[w].refreshToken)]_vars

C6_Witness ==
    /\ result.op = "refresh"
    /\ result.message = "Invalid refresh token"
    /\ ActiveWithOtherHash(sessions, result.presented)

\* ------------------------------------------------------------------ C7
\* C7: a refresh with an expired token is rejected before any store
\* operation, also when its session is still active; the store is
\* unchanged.
C7_ExpiredRejectedFirst ==
    [][/\ (RejectedAtOnce("refresh") /\ ExpiredAt(result'.presented, now)) =>
             /\ result'.kind = "throw"
             /\ result'.storeOps = 0
             /\ sessions' = sessions
       /\ \A w \in Workers :
             GoesOn(w, "refresh_revoke") =>
                ~ExpiredAt(frame'[w].refreshToken, now)]_vars

C7_Witness ==
    /\ result.op = "refresh"
    /\ result.kind = "throw"
    /\ result.storeOps = 0
    /\ ExpiredAt(result.presented, now)
    /\ \E i \in 1..Len(sessions) :
          /\ sessions[i].refresh_hash = hashToken(result.presented)
          /\ sessions[i].revoked_at = 0

\* ------------------------------------------------------------------ C8
\* C8: when a refresh succeeds, the session of the presented token is
\* revoked and exactly one session was added: active, under a new token
\* identifier, with the old session's ip and user agent and the hash of
\* the returned refresh token.
C8_Rotation ==
    [][\A w \in Workers :
          (Finishes(w, "refresh_create") /\ result'.kind = "return") =>
             /\ Len(sessions') = Len(sessions) + 1
             /\ \A i \in 1..Len(sessions) : sessions'[i] = sessions[i]
             /\ \E i \in 1..Len(sessions) :
                   LET old == sessions'[i]
                       new == sessions'[Len(sessions')] IN
                   /\ old.refresh_hash = hashToken(result'.presented)
                   /\ old.revoked_at # 0
                   /\ new.revoked_at = 0
                   /\ new.jwt_id # old.jwt_id
                   /\ new.jwt_id = result'.refresh.jti
                   /\ new.ip = old.ip
                   /\ new.user_agent = old.user_agent
                   /\ new.refresh_hash = hashToken(result'.refresh)]_vars

C8_Witness ==
    /\ result.op = "refresh"
    /\ result.kind = "return"
    /\ \E i \in 1..Len(sessions) :
          /\ sessions[i].refresh_hash = hashToken(result.presented)
          /\ sessions[i].revoked_at # 0

\* ------------------------------------------------------------------ C9
\* C9: no step removes a session or turns a revoked session active.
C9_RevokedForever ==
    [][/\ Len(sessions') >= Len(sessions)
       /\ \A i \in 1..Len(sessions) :
             /\ sessions'[i].id = sessions[i].id
             /\ sessions'[i].jwt_id = sessions[i].jwt_id
             /\ sessions[i].revoked_at # 0 => sessions'[i].revoked_at # 0]_vars

C9_Witness ==
    \E i \in 1..Len(sessions) :
        /\ sessions[i].revoked_at # 0
        /\ Len(sessions) > i
        /\ ~isAuthenticated

\* ----------------------------------------------------------------- C10
C10_UniqueJti ==
    \A i \in 1..Len(sessions) : \A j \in 1..Len(sessions) :
        sessions[i].jwt_id = sessions[j].jwt_id => i = j

C10_NoReuse ==
    \A j \in (Len(sessions) + 1)..Len(sessions') :
        \A i \in 1..Len(sessions) : sessions'[j].jwt_id # sessions[i].jwt_id

\* C10: the store never holds two sessions under one token identifier,
\* and a session that is added never takes the identifier of a session
\* already stored, also when the generator repeats an identifier.
C10_JtiNeverReused == []C10_UniqueJti /\ [][C10_NoReuse]_vars

C10_Witness ==
    /\ result.message = "Conflict"
    /\ \E i \in 1..Len(sessions) :
          \E w \in Workers : pc[w] = "idle" /\ sessions[i].revoked_at = 0

\* ----------------------------------------------------------------- C11
\* the issued refresh tokens whose hash a session stores
IssuedFor(s) == {t \in issued : hashToken(t) = s.refresh_hash}

\* C11 as stated: every active session stores the hash of exactly one
\* refresh token ever issued, and that token verifies and is unexpired.
C11_ActiveHashOfLiveToken ==
    \A i \in 1..Len(sessions) :
        sessions[i].revoked_at = 0 =>
           /\ Cardinality(IssuedFor(sessions[i])) = 1
           /\ \A t \in IssuedFor(sessions[i]) : verifyRefreshToken(t, now)

\* C11 amended: every active session stores the hash of exactly one
\* refresh token ever issued; that token carries the service's signature,
\* the session's identifier and owner, and an expiry that may have passed
\* while the session is still active.
C11_ActiveHashOfOneIssued ==
    \A i \in 1..Len(sessions) :
        sessions[i].revoked_at = 0 =>
           /\ Cardinality(IssuedFor(sessions[i])) = 1
           /\ \A t \in IssuedFor(sessions[i]) :
                 /\ t.key = "refresh_secret"
                 /\ t.jti = sessions[i].jwt_id
                 /\ t.sub = sessions[i].user_id
                 /\ t.iat <= now

C11_Witness ==
    \E i \in 1..Len(sessions) :
        /\ sessions[i].revoked_at = 0
        /\ \E t \in IssuedFor(sessions[i]) : ExpiredAt(t, now)
        /\ \E j \in 1..Len(sessions) : sessions[j].revoked_at # 0

AuthStep == result' # result /\ result'.op = "auth"

\* the session stored for refresh token r is revoked
RevokedSessionOf(r) ==
    \E i \in 1..Len(sessions) :
        /\ sessions[i].refresh_hash = hashToken(r)
        /\ sessions[i].revoked_at # 0

\* C13: the middleware accepts every unexpired access token the service
\* issued, whether the session created with it is active or revoked, and
\* it neither reads nor changes the session store.
C13_AccessOutlivesSession ==
    [][AuthStep =>
          /\ sessions' = sessions
          /\ result'.storeOps = 0
          /\ (/\ result'.presented \in IssuedAccess
              /\ now < result'.presented.exp) =>
                /\ result'.kind = "next"
                /\ result'.user = findUserById(result'.presented.sub)]_vars

C13_Witness ==
    /\ result.op = "auth"
    /\ result.kind = "next"
    /\ \E r \in issued :
          /\ AccessOf(r) = result.presented
          /\ RevokedSessionOf(r)
          /\ \A q \in issued : AccessOf(q) = result.presented => q = r

\* ----------------------------------------------------------------- C14
\* the cookie is present, carries the access signature, is unexpired at
\* time t and names a user that exists
Acceptable(cookie, t) ==
    /\ cookie # NoToken
    /\ cookie.key = env.ACCESS_SECRET
    /\ t < cookie.exp
    /\ \E u \in Users : u.id = cookie.sub

\* C14: the middleware calls next() exactly when the cookie is present,
\* verifies and names an existing user, and req.user is then that user;
\* in every other case it answers 401 {error: 'Unauthorized'}, does not
\* call next() and leaves req.user unset.
C14_NextIffAcceptable ==
    [][AuthStep =>
          IF Acceptable(result'.presented, now)
          THEN /\ result'.kind = "next"
               /\ result'.user \in Users
               /\ result'.user.id = result'.presented.sub
          ELSE /\ result'.kind = "respond"
               /\ result'.status = 401
               /\ result'.message = "Unauthorized"
               /\ result'.user = NoUser]_vars

C14_Witness ==
    /\ result.op = "auth"
    /\ result.status = 401
    /\ result.presented.key = env.ACCESS_SECRET
    /\ result.presented.typ = "access"
    /\ now < result.presented.exp
    /\ result.presented.sub \notin {u.id : u \in Users}

\* ----------------------------------------------------------------- C15
\* C15: the access token a successful login returns is signed for the
\* user that logged in, and at every time before its expiry it verifies
\* and the middleware resolves req.user to that user.
C15_LoginAccessResolvesUser ==
    [][\A w \in Workers :
          (Finishes(w, "login_create") /\ result'.kind = "return") =>
             /\ result'.user = findUserByEmail(result'.email)
             /\ result'.user \in Users
             /\ result'.access.sub = result'.user.id
             /\ result'.access.exp > result'.access.iat
             /\ \A t \in result'.access.iat..(result'.access.exp - 1) :
                   /\ verifyAccessToken(result'.access, t)
                   /\ authOutcome(result'.access, t).kind = "next"
                   /\ authOutcome(result'.access, t).user = result'.user]_vars

C15_Witness ==
    /\ result.op = "login"
    /\ result.kind = "return"
    /\ result.access \in IssuedAccess
    /\ now < result.access.exp
    /\ authOutcome(result.access, now).user = findUserByEmail("a@x.com")

\* ----------------------------------------------------------------- C16
\* the refresh token the caller holds: the one handed over by the call
\* that ended last, when that call succeeded
HoldsToken == result.kind \in {"return", "redirect"}

\* C16: when the caller logs out, the session stored for the refresh
\* token it holds is revoked afterwards (so that a later refreshSession
\* with that token fails with 'Session revoked').
C16_LogoutRevokes ==
    [][(isAuthenticated /\ ~isAuthenticated' /\ HoldsToken) =>
          \E i \in 1..Len(sessions') :
              /\ sessions'[i].refresh_hash = hashToken(result.refresh)
              /\ sessions'[i].revoked_at # 0]_vars

\* ----------------------------------------------------------------- C17
\* C17: the middleware never lets a request through whose access_token
\* cookie holds a refresh token, and refreshSession never goes on to
\* rotate when it is given an access token.
C17_TokenClassesSeparate ==
    [][/\ (AuthStep /\ result'.presented.typ = "refresh") =>
             result'.kind = "respond"
       /\ \A w \in Workers :
             GoesOn(w, "refresh_revoke") =>
                frame'[w].refreshToken.typ # "access"]_vars

\* ----------------------------------------------------------------- C18
\* a login or refresh ended with one of the failures a caller can provoke
\* with its input: bad credentials, bad token, hash mismatch, revoked or
\* absent session
SecurityFailure(r) ==
    /\ r.op \in {"login", "refresh"}
    /\ r.kind = "throw"
    /\ r.message \notin {"Conflict", "TypeError"}

\* C18: any two such failures carry the same status and the same
\* message; here for two failures that follow one another.
C18_UniformFailure ==
    [][(SecurityFailure(result) /\ SecurityFailure(result')) =>
          /\ result'.status = result.status
          /\ result'.message = result.message]_vars

\* ----------------------------------------------------------------- C19
\* C19: when passport reports an error or no user, googleCallback ends
\* the request with a redirect, raises nothing, creates no session and
\* sets no token cookie.
C19_ProviderErrorRedirects ==
    [][RejectedAtOnce("google") =>
          /\ result'.kind = "redirect"
          /\ sessions' = sessions
          /\ result'.access = NoToken
          /\ result'.refresh = NoToken]_vars

\* ----------------------------------------------------------------- C20
\* a session with the identifier and the hash of refresh token t is stored
Persisted(store, t) ==
    \E i \in 1..Len(store) :
        /\ store[i].jwt_id = t.jti
        /\ store[i].refresh_hash = hashToken(t)

\* C20: a call hands a refresh token to its caller, as a return value or
\* as a cookie, only when the session with that token's identifier and
\* hash is in the store; the OAuth callback creates the session, then
\* sets the access_token and the refresh_token cookie, then redirects to
\* /notebooks, and sets no cookie when createSession fails.
C20_PersistedBeforeHandedOver ==
    [][/\ (result' # result /\ result'.refresh # NoToken) =>
             /\ Persisted(sessions', result'.refresh)
             /\ result'.refresh.jti # NoToken.jti
       /\ \A t \in issued' : Persisted(sessions', t)
       /\ \A w \in Workers : Finishes(w, "google_create") =>
             IF result'.kind = "redirect"
             THEN /\ result'.effects = <<"createSession",
                                         "cookie access_token",
                                         "cookie refresh_token",
                                         "redirect /notebooks">>
                  /\ Len(sessions') = Len(sessions) + 1
             ELSE /\ result'.effects = <<"createSession">>
                  /\ result'.access = NoToken
                  /\ result'.refresh = NoToken
                  /\ issued' = issued
                  /\ sessions' = sessions]_vars

C20_Witness ==
    /\ result.op = "google"
    /\ result.kind = "redirect"
    /\ Persisted(sessions, result.refresh)
    /\ \E i \in 1..Len(sessions) : sessions[i].user_id = 1

\* ----------------------------------------------------------------- C21
\* the call that ended last gave its caller a result or an error: a
\* return value or a thrown error for the service functions, a redirect
\* or next(err) for the controller
Surfaced == result.kind \in {"return", "throw", "redirect", "next_err"}

\* C21: every request that is being served is eventually over with its
\* result or its error handed to the caller, also when a session-store
\* operation fails.
C21_EveryRequestAnswered ==
    \A w \in Workers :
        (pc[w] # "idle") ~> (pc[w] = "idle" /\ result.w = w /\ Surfaced)

\* ----------------------------------------------------------------- C22
\* every session that was stored before the step is still there, the same
ExistingUnchanged ==
    /\ Len(sessions') >= Len(sessions)
    /\ \A i \in 1..Len(sessions) : sessions'[i] = sessions[i]

\* C22: a login and an OAuth callback leave every stored session as it
\* was, whatever the number of active sessions the user already holds; a
\* refresh changes no stored session but the one bound to the presented
\* token.
C22_OtherSessionsUntouched ==
    [][\A w \in Workers :
          /\ (pc[w] \in {"login_create", "google_create", "refresh_create"}
                 /\ pc'[w] # pc[w]) => ExistingUnchanged
          /\ (pc[w] = "idle" /\ pc'[w] # pc[w]) => sessions' = sessions
          /\ (pc[w] = "refresh_revoke" /\ pc'[w] # pc[w]) =>
                /\ Len(sessions') = Len(sessions)
                /\ \A i \in 1..Len(sessions) :
                      sessions'[i] # sessions[i] =>
                         sessions[i].refresh_hash =
                            hashToken(frame[w].refreshToken)]_vars

C22_Witness ==
    /\ result.op = "refresh"
    /\ result.kind = "return"
    /\ \E i \in 1..Len(sessions) : \E j \in 1..Len(sessions) :
          /\ i # j
          /\ sessions[i].user_id = sessions[j].user_id
          /\ sessions[i].revoked_at = 0
          /\ sessions[j].revoked_at = 0
          /\ sessions[i].refresh_hash # hashToken(result.refresh)
          /\ <<i, j>> \notin lineage
          /\ \A p \in lineage : p[2] # i

\* ----------------------------------------------------------------- C23
\* C23: revoking a revoked session changes nothing and raises nothing:
\* for every stored session, a second revokeSession now or later leaves
\* what the first one left; and in every step, a refresh that revokes a
\* session another call has revoked goes on with the store unchanged,
\* and no revocation timestamp ever changes.
C23_RevokeIdempotent ==
    /\ [](\A id \in 1..Len(sessions) : \A t2 \in now..MaxTime :
             LET once == revokeSession(sessions, id, now) IN
             /\ revokeSession(once, id, t2) = once
             /\ once[id].revoked_at # 0
             /\ sessions[id].revoked_at = 0 => once[id].revoked_at = now)
    /\ [][/\ \A w \in Workers :
                (/\ pc[w] = "refresh_revoke"
                 /\ sessions[frame[w].session.id].revoked_at # 0
                 /\ pc'[w] # pc[w]) =>
                   /\ sessions' = sessions
                   /\ pc'[w] = "refresh_create"
          /\ \A i \in 1..Len(sessions) :
                sessions[i].revoked_at # 0 =>
                   sessions'[i].revoked_at = sessions[i].revoked_at]_vars

C23_Witness ==
    \E v \in Workers : \E w \in Workers :
        /\ v # w
        /\ pc[v] = "refresh_create"
        /\ pc[w] = "refresh_create"
        /\ frame[v].session.id = frame[w].session.id
        /\ sessions[frame[w].session.id].revoked_at # 0
        /\ sessions[frame[w].session.id].revoked_at < now

\* ----------------------------------------------------------------- C24
\* C24: createCookieOptions(false) has maxAge 900000 and
\* createCookieOptions(true) has maxAge 2592000000; both are httpOnly,
\* sameSite 'lax', path '/', and secure exactly when NODE_ENV is
\* 'production'; these are the options the callback sets its cookies with.
C24_CookieOptions ==
    /\ createCookieOptions(FALSE).maxAge = <<0, 900000>>
    /\ createCookieOptions(TRUE).maxAge = <<2592, 0>>
    /\ \A isRefresh \in BOOLEAN :
          LET o == createCookieOptions(isRefresh) IN
          /\ o.httpOnly
          /\ o.sameSite = "lax"
          /\ o.path = "/"
          /\ o.secure <=> (env.NODE_ENV = "production")
    /\ result.kind = "redirect" =>
          /\ Len(result.cookies) = 2
          /\ result.cookies[1].name = "access_token"
          /\ result.cookies[1].options = createCookieOptions(FALSE)
          /\ result.cookies[2].name = "refresh_token"
          /\ result.cookies[2].options = createCookieOptions(TRUE)
          /\ result.cookies[2].options.maxAge = <<2592, 0>>

C24_Witness ==
    /\ result.kind = "redirect"
    /\ env.NODE_ENV = "Production"
    /\ ~result.cookies[2].options.secure
    /\ result.cookies[1].options.maxAge = Num(900000)

\* ----------------------------------------------------------------- C25
\* /api/auth/*
IsAuthPath(pathname) ==
    /\ Len(pathname.segs) >= 3
    /\ pathname.segs[1] = "api"
    /\ pathname.segs[2] = "auth"

\* C25: a request to /api/auth/* that passes through the middleware is
\* rewritten to the service whose base URL is INTERNAL_AUTH_API_URL, with
\* its path and query kept.
C25_AuthRewrittenToAuthService ==
    (/\ request # NoRequest
     /\ IsAuthPath(request.pathname)
     /\ ~Falsy(processEnv.INTERNAL_AUTH_API_URL))
    => /\ response.kind = "rewrite"
       /\ response.url =
             [origin |-> processEnv.INTERNAL_AUTH_API_URL.origin,
              slash |->
                 stripTrailingSlash(processEnv.INTERNAL_AUTH_API_URL).slash,
              pathname |-> request.pathname,
              search |-> request.search]

\* ----------------------------------------------------------------- C26
\* C26: after any sequence of toolbar clicks, updateTextSize,
\* updatePreferences and resetPreferences calls, and after loading from
\* localStorage, preferences.textSize lies between 75 and 200.
C26_TextSizeInRange == preferences.textSize \in 75..200

\* ----------------------------------------------------------------- C27
\* the session with this id is in the store and revoked
RevokedById(store, id) ==
    \E i \in 1..Len(store) : store[i].id = id /\ Truthy(store[i].revoked_at)

\* C27: within one refreshSession the old session's revocation is written
\* before the new session is created: while the call waits to create, when
\* it creates, and ever after, the session of the presented token is revoked
\* whenever the session that replaces it exists.
C27_RevokedBeforeCreated ==
    /\ [](\A w \in Workers :
             pc[w] = "refresh_create"
             => RevokedById(sessions, frame[w].session.id))
    /\ [](\A p \in lineage :
             p[2] <= Len(sessions) => RevokedById(sessions, p[1]))
    /\ [][\A w \in Workers :
             (pc[w] = "refresh_create" /\ pc'[w] = "idle"
              /\ Len(sessions') > Len(sessions))
             => /\ RevokedById(sessions, frame[w].session.id)
                /\ RevokedById(sessions', frame[w].session.id)
                /\ sessions'[Len(sessions')].jwt_id = frame[w].jwt_id
                /\ ~Truthy(sessions'[Len(sessions')].revoked_at)]_vars

C27_Witness ==
    /\ result.op = "refresh"
    /\ result.kind = "return"
    /\ \E p \in lineage :
          /\ RevokedById(sessions, p[1])
          /\ sessions[p[2]].jwt_id = result.refresh.jti
          /\ ~Truthy(sessions[p[2]].revoked_at)
    /\ findSessionByJti(sessions, result.presented.jti).revoked_at # 0

\* ----------------------------------------------------------------- C28
\* the last call was a refreshSession that revoked and then failed at
\* createSession
FailedAtCreate ==
    /\ result.op = "refresh"
    /\ result.kind = "throw"
    /\ result.message = "Conflict"
    /\ result.storeOps = 4

\* C28: rotation is retryable: when a refreshSession failed at createSession
\* after its revokeSession succeeded, the next refreshSession with the same
\* refresh token is not rejected (it goes on to create a new active session).
C28_RotationRetryable ==
    [][(/\ FailedAtCreate
        /\ result' # result
        /\ result'.op = "refresh"
        /\ result'.presented = result.presented
        /\ result'.storeOps < 4)
       => result'.kind # "throw"]_vars

\* ----------------------------------------------------------------- C29
\* the token passes every check of refreshSession before its first write
PassesChecks(store, token, t) ==
    /\ verifyRefreshToken(token, t)
    /\ ~AbsentOrRevoked(store, token.jti)
    /\ findSessionByJti(store, token.jti).refresh_hash = hashToken(token)
    /\ findUserById(token.sub) # NoUser

\* C29: a refreshSession that fails at verification, lookup, the revoked
\* check, the hash comparison or because the user is gone leaves the store
\* as it was, and a token that fails verification causes no store read;
\* only a token that passes all five goes on to revoke and create.
C29_FailedRefreshWritesNothing ==
    [][\A w \in Workers :
        /\ (/\ result' # result
            /\ result'.w = w
            /\ result'.op = "refresh"
            /\ result'.kind = "throw"
            /\ result'.storeOps < 4)
           => /\ sessions' = sessions
              /\ pc'[w] = "idle" /\ pc[w] = "idle"
              /\ ~PassesChecks(sessions, result'.presented, now)
              /\ ~verifyRefreshToken(result'.presented, now)
                 => result'.storeOps = 0
        /\ (pc[w] = "idle" /\ pc'[w] = "refresh_revoke")
           => /\ PassesChecks(sessions, frame'[w].refreshToken, now)
              /\ sessions' = sessions]_vars

C29_Witness ==
    /\ result.op = "refresh"
    /\ result.kind = "throw"
    /\ result.message = "TypeError"
    /\ findUserById(result.presented.sub) = NoUser
    /\ verifyRefreshToken(result.presented, now)
    /\ ~AbsentOrRevoked(sessions, result.presented.jti)
    /\ \A i \in 1..Len(sessions) : ~Truthy(sessions[i].revoked_at)

\* ----------------------------------------------------------------- C30
\* C30: rotation never changes ownership: when a refreshSession succeeds,
\* the user id of the session it created and the subject of the access and
\* refresh tokens it returns equal the user id of the session it revoked.
C30_RotationKeepsOwner ==
    [][\A w \in Workers :
        (/\ pc[w] = "refresh_create"
         /\ pc'[w] = "idle"
         /\ result'.kind = "return")
        => LET old == frame[w].session
               new == sessions'[Len(sessions')]
           IN  /\ Len(sessions') = Len(sessions) + 1
               /\ RevokedById(sessions', old.id)
               /\ \A i \in 1..Len(sessions') :
                     sessions'[i].id = old.id
                     => sessions'[i].user_id = old.user_id
               /\ new.jwt_id = result'.refresh.jti
               /\ new.user_id = old.user_id
               /\ result'.access.sub = old.user_id
               /\ result'.refresh.sub = old.user_id
               /\ result'.user.id = old.user_id
               /\ result'.presented.sub = old.user_id]_vars

C30_Witness ==
    /\ result.op = "refresh"
    /\ result.kind = "return"
    /\ \E p \in lineage :
          /\ sessions[p[2]].jwt_id = result.refresh.jti
          /\ sessions[p[2]].user_id = result.access.sub
          /\ \E i \in 1..Len(sessions) :
                /\ sessions[i].id = p[1]
                /\ Truthy(sessions[i].revoked_at)
                /\ sessions[i].user_id = sessions[p[2]].user_id
                /\ sessions[i].jwt_id = result.presented.jti

\* ----------------------------------------------------------------- C31
\* the payload whose signin is awaited
Awaited == signins[Len(signins)]

\* no attempt rejects, at most one retry is scheduled and only between
\* attempts, the payloads are sent in their listed order, and use is
\* called only when signed in
BootShape ==
    /\ surrealPc # "rejected"
    /\ timers \in {0, 1}
    /\ timers = 1 <=> surrealPc = "waiting"
    /\ \A i \in 1..Len(signins) : signins[i] = i
    /\ Len(signins) <= 5
    /\ surrealPc \in {"use", "done"} => signedIn
    /\ surrealPc = "signin" => ~signedIn /\ signins # <<>>

\* every failure is caught and schedules exactly one retry; a rejected
\* payload is followed by the next one; an accepted one ends the loop
BootSteps ==
    /\ (surrealPc = "connect" /\ surrealPc' # "connect" /\ ~accepts.connect)
       => surrealPc' = "waiting" /\ timers' = timers + 1
    /\ (surrealPc = "connect" /\ surrealPc' # "connect" /\ accepts.connect)
       => surrealPc' = "signin" /\ signins' = <<1>> /\ timers' = timers
    /\ (surrealPc = "signin" /\ <<surrealPc, signins>>' # <<surrealPc, signins>>)
       => IF Awaited \in accepts.shapes
          THEN surrealPc' = "use" /\ signedIn' /\ signins' = signins
          ELSE IF Awaited < 5
          THEN /\ surrealPc' = "signin"
               /\ signins' = Append(signins, Awaited + 1)
               /\ timers' = timers
          ELSE surrealPc' = "waiting" /\ timers' = timers + 1
    /\ (surrealPc = "use" /\ surrealPc' # "use")
       => IF accepts.use
          THEN surrealPc' = "done" /\ timers' = 0
          ELSE surrealPc' = "waiting" /\ timers' = timers + 1
    /\ (surrealPc # "use" /\ surrealPc' = "use") => surrealPc = "signin"
    /\ (surrealPc = "waiting" /\ surrealPc' # "waiting")
       => surrealPc' = "connect" /\ timers' = timers - 1
    /\ surrealPc = "done" => surrealPc' = "done" /\ timers' = 0

Completed == surrealPc = "done" /\ timers = 0

\* C31 as stated: initSurreal never rejects, every failure schedules
\* exactly one retry, the payloads are tried in order up to the first
\* success, use follows a successful signin; and if the store eventually
\* accepts a connection and one payload, initialisation eventually
\* completes and no further retry is scheduled.
C31_CompletesOnceSignedIn ==
    /\ []BootShape
    /\ [][BootSteps]_vars
    /\ \A payload \in SigninAttempts :
          (<>[](accepts.connect /\ payload \in accepts.shapes))
          => <>[]Completed

\* C31 amended: the same, when the store eventually accepts a connection,
\* one payload and the use call.
C31_CompletesOnceStoreAccepts ==
    /\ []BootShape
    /\ [][BootSteps]_vars
    /\ \A payload \in SigninAttempts :
          (<>[](/\ accepts.connect
                /\ payload \in accepts.shapes
                /\ accepts.use))
          => <>[]Completed

C31_Witness ==
    /\ Completed
    /\ signins = <<1, 2>>
    /\ signedIn
    /\ 2 \in accepts.shapes

\* ----------------------------------------------------------------- C32
\* the backend base URL: INTERNAL_API_URL, or the default when it is unset
BackendBase ==
    IF processEnv.INTERNAL_API_URL = Unset
    THEN Url("http://localhost:15055", 0)
    ELSE processEnv.INTERNAL_API_URL

InFlight(op) == {c \in Callers : cpc[c] = op}

AsReturned(b) == IF b THEN "true" ELSE "false"

\* a call answered from the store alone has just returned
AnsweredLocally(op) ==
    /\ cresult' # cresult
    /\ cresult'.op = op
    /\ ~cresult'.contacted

\* C33: checkAuth is single-flight.  isCheckingAuth is set exactly while one
\* checkAuth awaits its /api/auth/me response, and there is never a second
\* one; a checkAuth called meanwhile starts no request, changes nothing in
\* the store and returns the current isAuthenticated; the checkAuth that set
\* the flag clears it when its request settles, whatever the outcome, and
\* every such request that settles does so eventually.
C33_SingleFlight ==
    /\ [](/\ Cardinality(InFlight("checkAuth")) <= 1
          /\ isCheckingAuth <=> InFlight("checkAuth") # {})
    /\ [][/\ isCheckingAuth /\ AnsweredLocally("checkAuth")
             => /\ cresult'.returned = AsReturned(isAuthenticated)
                /\ UNCHANGED <<isAuthenticated, isLoading, error, lastAuthCheck,
                             isCheckingAuth, authRequired, cpc, cframe>>
          /\ \A c \in Callers :
                cpc[c] = "checkAuth" /\ cpc'[c] # "checkAuth"
                => ~isCheckingAuth']_vars
    /\ \A c \in Callers : (cpc[c] = "checkAuth") ~> ~isCheckingAuth

C33_Witness ==
    /\ isCheckingAuth
    /\ cresult.op = "checkAuth"
    /\ ~cresult.contacted
    /\ InFlight("checkAuth") # {} /\ cresult.c \notin InFlight("checkAuth")

\* ---------------------------------------------------------------------- C34
\* caller c's request settles in this step
Settles(c, op) == cpc[c] = op /\ cpc'[c] = "idle"

\* C34: a login or checkAuth request that was in flight when logout ran does
\* not set isAuthenticated back to true: when it settles while the store is
\* logged out, the store stays logged out.
C34_LogoutSticks ==
    [][\A c \in Callers :
          /\ Settles(c, "login") \/ Settles(c, "checkAuth")
          /\ cframe[c].beforeLogout
          /\ ~isAuthenticated
          => ~isAuthenticated']_vars

\* ---------------------------------------------------------------------- C35
\* lastAuthCheck is set only by a login or a check that succeeded, and a
\* check that did not succeed leaves the store logged out with no
\* lastAuthCheck
StampedBySuccess ==
    /\ lastAuthCheck' # lastAuthCheck /\ lastAuthCheck' # NoCheck
       => \E c \in Callers :
             /\ Settles(c, "login") \/ Settles(c, "checkAuth")
             /\ cresult'.c = c
             /\ cresult'.returned = "true"
    /\ \A c \in Callers :
          Settles(c, "checkAuth") /\ cresult'.returned = "false"
          => ~isAuthenticated' /\ lastAuthCheck' = NoCheck

\* the store is authenticated and was checked less than 30 seconds ago
Fresh ==
    /\ isAuthenticated
    /\ lastAuthCheck # NoCheck
    /\ clock - lastAuthCheck < StaleAfter

\* C35 as stated: checkAuth answers true without contacting the server only
\* when isAuthenticated is true and lastAuthCheck is less than 30 seconds
\* old; lastAuthCheck is set only by a successful login or check, and a
\* failed check clears both, so that the next checkAuth contacts the server.
C35_CachedOnlyWhenFresh ==
    [][/\ AnsweredLocally("checkAuth")
          /\ cresult'.returned = "true"
          => Fresh
       /\ StampedBySuccess]_vars

\* C35 amended: checkAuth answers without contacting the server only when
\* the store is authenticated with a lastAuthCheck less than 30 seconds old,
\* or when another checkAuth is in flight; in the second case it answers the
\* current isAuthenticated, which is true also for a rehydrated or stale
\* session.  lastAuthCheck is set only by a successful login or check, and a
\* failed check clears both, so that the next checkAuth that finds no check
\* in flight contacts the server.
C35_CachedOnlyWhenFreshOrInFlight ==
    [][/\ AnsweredLocally("checkAuth")
          => \/ isCheckingAuth
                /\ cresult'.returned = AsReturned(isAuthenticated)
             \/ ~isCheckingAuth /\ Fresh
                /\ cresult'.returned = "true"
       /\ ~isCheckingAuth /\ lastAuthCheck = NoCheck
          => ~AnsweredLocally("checkAuth")
       /\ StampedBySuccess]_vars

\* checkAuth has answered true from a fresh lastAuthCheck, no check in flight
C35_Witness ==
    /\ cresult.op = "checkAuth"
    /\ cresult.returned = "true"
    /\ ~cresult.contacted
    /\ ~isCheckingAuth
    /\ Fresh

\* ---------------------------------------------------------------------- C36
\* C36: when a login resolves, no other login overlapping, isLoading is
\* false and one of two outcomes holds: it returned true, the response was
\* OK, isAuthenticated is true and error is null; or it returned false, the
\* response was not OK or the request threw, isAuthenticated is false and
\* error is not null.  login never rejects.
C36_LoginOutcome ==
    [][\A c \in Callers :
          Settles(c, "login") /\ InFlight("login") = {c}
          => /\ ~isLoading'
             /\ cresult'.c = c /\ cresult'.op = "login"
             /\ \/ /\ cresult'.returned = "true"
                   /\ isAuthenticated'
                   /\ error' = NoError
                \/ /\ cresult'.returned = "false"
                   /\ ~isAuthenticated'
                   /\ error' # NoError
             /\ \A outcome \in Outcomes :
                   login_settles(c, outcome)
                   => (Ok(outcome) <=> cresult'.returned = "true")]_vars

\* a login has failed, leaving a message, and nothing is loading
C36_Witness ==
    /\ cresult.op = "login"
    /\ cresult.returned = "false"
    /\ ~isAuthenticated
    /\ error # NoError
    /\ ~isLoading
    /\ InFlight("login") = {}

\* ---------------------------------------------------------------------- C37
\* C37: checkAuthRequired fails closed.  When the call ends, whether the
\* health request answered OK, answered another status or threw,
\* authRequired is true; the call returns true exactly when the response was
\* OK and throws the error again in every other case.
C37_FailsClosed ==
    [][\A c \in Callers :
          Settles(c, "checkAuthRequired")
          => /\ authRequired' = "true"
             /\ cresult'.c = c /\ cresult'.op = "checkAuthRequired"
             /\ \A outcome \in Outcomes :
                   checkAuthRequired_settles(c, outcome)
                   => /\ Ok(outcome) <=> cresult'.returned = "true"
                      /\ ~Ok(outcome) <=> cresult'.returned = "throw"]_vars

\* the health request failed, the error was thrown again, and authentication
\* is required
C37_Witness ==
    /\ cresult.op = "checkAuthRequired"
    /\ cresult.returned = "throw"
    /\ authRequired = "true"
    /\ cpc[cresult.c] = "idle"

\* ---------------------------------------------------------------------- C38
Running == {c \in Callers : exports[c] # NoExport}

\* C38: isExporting is true only while an export is running, and when
\* exportContent settles it is reset to false, after a success and after a
\* failure alike; an unsupported format and a PDF without htmlContent end in
\* a failure; so after a failed export the buttons are enabled again.
C38_ExportingReset ==
    /\ [](isExporting => Running # {})
    /\ [][\A c \in Callers :
             c \in Running /\ exports'[c] = NoExport
             => /\ ~isExporting'
                /\ ~disabled'
                /\ toast' \in {"Exported as " \o toUpperCase(exports[c].format),
                               "Failed to export as "
                                   \o toUpperCase(exports[c].format)}
                /\ \/ exports[c].format = "html"
                   \/ exports[c].format = "pdf" /\ ~exports[c].htmlContent
                   => toast' = "Failed to export as "
                                   \o toUpperCase(exports[c].format)]_vars

\* a PDF export without htmlContent has failed and the buttons are enabled
C38_Witness ==
    /\ toast = "Failed to export as PDF"
    /\ ~isExporting
    /\ Running = {}

====
